---- MODULE Spec2Model ----
(***************************************************************************)
(* Model of the schedule (cronograma) comparison and budget-balancing      *)
(* engine of nemaec-erp:                                                   *)
(*   domain/entities/cronograma_version.py        (entities)               *)
(*   services/cronograma_comparacion_service.py   (comparator, validator)  *)
(*   presentation/api/cronograma_versiones.py     (sessions, versions)     *)
(*                                                                         *)
(* Money is a Python Decimal.  It is modelled exactly as an integer count  *)
(* of half-centimos (0.005 soles), so that amounts strictly inside the     *)
(* 0.01 tolerance exist: 0.01 is 2 units and S/ 1.00 is 200 units.         *)
(*                                                                         *)
(* Beside it, three entities of the domain layer:                          *)
(*   application/services/dashboard_service.py    (risk score)             *)
(*   domain/entities/contrato.py                  (personnel of a contract)*)
(*   domain/entities/comisaria.py                 (states of a station)    *)
(***************************************************************************)
EXTENDS Integers, Sequences, FiniteSets, TLC

VARIABLES
    comparaciones_activas,  \* cronograma_versiones.py:88  token -> ComparacionCronogramas
    versiones,              \* contents of VERSIONES_FILE (load_versiones / save_versiones)
    respuesta,              \* what the last endpoint call returned to its caller
    llamada,                \* history: the last call (endpoint, token, what its loop did)
    partidas_originales,    \* comparar_cronogramas: first argument
    partidas_nuevas,        \* comparar_cronogramas: second argument
    comparacion,            \* <<its result>>, <<>> before the call
    validacion,             \* <<validar_equilibrio_presupuestal of the result's suggestions>>
    version,                \* one CronogramaVersion object
    aprobable,              \* <<version.puede_ser_aprobada()>> as just returned, else <<>>
    modificacion,           \* one ModificacionPartida object
    impacto_devuelto,       \* <<calcular_impacto_presupuestal(), es_equilibrada()>> as just returned
    lista_validada,         \* the list handed to the validator and to the suggester
    resultado_validacion,   \* <<validar_equilibrio_presupuestal(list)>> as last returned
    sugerencias_devueltas,  \* <<sugerir_equilibrio_automatico(list)>> as last returned
    datos_comisaria,        \* _calcular_score_riesgo: its argument
    score_riesgo,           \* <<what the call returned or raised>>, <<>> before the call
    objetos,                \* the PersonalContrato objects created so far, by identity
    personal,               \* Contrato.personal: the identities in list order
    comisaria,              \* one Comisaria object
    excepcion               \* what the last call on it raised

vars == <<comparaciones_activas, versiones, respuesta, llamada,
          partidas_originales, partidas_nuevas, comparacion, validacion,
          version, aprobable, modificacion, impacto_devuelto,
          lista_validada, resultado_validacion, sugerencias_devueltas,
          datos_comisaria, score_riesgo, objetos, personal, comisaria, excepcion>>

varsApi == <<comparaciones_activas, versiones, respuesta, llamada>>
varsComparar == <<partidas_originales, partidas_nuevas, comparacion, validacion>>
varsVersion == <<version, aprobable>>
varsModificacion == <<modificacion, impacto_devuelto>>
varsValidar == <<lista_validada, resultado_validacion, sugerencias_devueltas>>
varsRiesgo == <<datos_comisaria, score_riesgo>>
varsContrato == <<objetos, personal>>
varsComisaria == <<comisaria, excepcion>>
varsEntidades == <<varsRiesgo, varsContrato, varsComisaria>>

-----------------------------------------------------------------------------
(* Values *)

\* Python None in an Optional[str] field.
None == "None"

\* n soles as a Decimal (in half-centimos).
Soles(n) == n * 200

Abs(x) == IF x < 0 THEN -x ELSE x

\* float(d) of a Decimal d: the double nearest to d.  No arithmetic is done on
\* these values, so the model keeps d and marks it as converted: two such values
\* are equal exactly when the Decimals are (amounts of at most 15 digits convert
\* to different doubles).
Float(d) == <<"float", d>>

\* Decimal(str(f)) of a float f: str gives the shortest digits that read back
\* as f, which for the double nearest to a Decimal of at most 15 digits are the
\* digits of that Decimal.
DecimalDeFloat(f) == f[2]

\* TipoModificacion
DEDUCTIVO_VINCULANTE == "deductivo_vinculante"
REDUCCION_PRESTACIONES == "reduccion_prestaciones"
ADICIONAL_INDEPENDIENTE == "adicional_independiente"
TipoModificacion == {DEDUCTIVO_VINCULANTE, REDUCCION_PRESTACIONES, ADICIONAL_INDEPENDIENTE}

\* EstadoModificacion
DETECTADA == "detectada"
PENDIENTE_CONFIRMACION == "pendiente_confirmacion"
PENDIENTE_JUSTIFICACION == "pendiente_justificacion"
JUSTIFICADA == "justificada"
PENDIENTE_APROBACION == "pendiente_aprobacion"
APROBADA == "aprobada"
RECHAZADA == "rechazada"
EJECUTADA == "ejecutada"
EstadoModificacion == {DETECTADA, PENDIENTE_CONFIRMACION, PENDIENTE_JUSTIFICACION, JUSTIFICADA,
                       PENDIENTE_APROBACION, APROBADA, RECHAZADA, EJECUTADA}

\* Decimal('0.01'): self.umbral_diferencia, and the literal of es_equilibrada,
\* calcular_balance_presupuestal and esta_equilibrada_preliminarmente.
umbral_diferencia == 2

-----------------------------------------------------------------------------
(* ModificacionPartida *)

\* The dataclass with its defaults; the fields the engine never reads or writes
\* (id, cronograma_version_id, documentos_sustento, observaciones_ugpe,
\* detectada_por_sistema, aprobada_por_ugpe, usuario_ugpe) are left out.
\* An Optional[datetime] is <<>> for None and <<t>> for a datetime.
ModificacionPartida(tipo, estado, codigo_partida, descripcion_anterior, descripcion_nueva, monto_anterior, monto_nuevo, impacto_presupuestal) ==
    [tipo |-> tipo,
     estado |-> estado,
     codigo_partida |-> codigo_partida,
     descripcion_anterior |-> descripcion_anterior,
     descripcion_nueva |-> descripcion_nueva,
     monto_anterior |-> monto_anterior,
     monto_nuevo |-> monto_nuevo,
     impacto_presupuestal |-> impacto_presupuestal,
     justificacion_monitor |-> None,
     partida_eliminada_codigo |-> None,
     partida_eliminada_monto |-> 0,
     confirmada_por_monitor |-> <<>>,
     monitor_responsable |-> None]

calcular_impacto_presupuestal(mod) ==
    IF mod.tipo = DEDUCTIVO_VINCULANTE
    THEN mod.monto_nuevo - mod.partida_eliminada_monto
    ELSE IF mod.tipo = ADICIONAL_INDEPENDIENTE
         THEN mod.monto_nuevo
         ELSE -mod.monto_anterior

\* The impact method with its result kept in the object
\* (self.impacto_presupuestal = ... before the return).
tras_calcular_impacto_guardado(mod) ==
    [mod EXCEPT !.impacto_presupuestal = calcular_impacto_presupuestal(mod)]

\* The object after calcular_impacto_presupuestal(): the method only returns.
TrasCalcularImpacto(mod) == mod

es_equilibrada(mod) == Abs(calcular_impacto_presupuestal(mod)) < umbral_diferencia

requiere_justificacion(mod) == mod.estado \in {PENDIENTE_JUSTIFICACION, DETECTADA}

-----------------------------------------------------------------------------
(* CronogramaComparacionService *)

\* {p['codigo_partida']: p for p in partidas}: a dict keeps its keys in the order
\* of their first insertion and, for a repeated key, the last value.
RECURSIVE ClavesEnOrden(_)
ClavesEnOrden(partidas) ==
    IF partidas = <<>> THEN <<>>
    ELSE LET antes == ClavesEnOrden(SubSeq(partidas, 1, Len(partidas) - 1))
             c == partidas[Len(partidas)].codigo_partida
         IN IF \E i \in 1..Len(antes) : antes[i] = c THEN antes ELSE Append(antes, c)

UltimaCon(partidas, codigo) ==
    partidas[CHOOSE i \in 1..Len(partidas) :
                /\ partidas[i].codigo_partida = codigo
                /\ \A j \in (i + 1)..Len(partidas) : partidas[j].codigo_partida # codigo]

\* The dict built so that a repeated key keeps its first value (setdefault).
mapa_primera_gana(partidas) ==
    LET claves == ClavesEnOrden(partidas)
    IN [i \in 1..Len(claves) |->
           partidas[CHOOSE k \in 1..Len(partidas) :
                       /\ partidas[k].codigo_partida = claves[i]
                       /\ \A j \in 1..(k - 1) : partidas[j].codigo_partida # claves[i]]]

\* The values of the dict, in key order.
Mapa(partidas) ==
    LET claves == ClavesEnOrden(partidas)
    IN [i \in 1..Len(claves) |-> UltimaCon(partidas, claves[i])]

EnMapa(mapa, codigo) == \E i \in 1..Len(mapa) : mapa[i].codigo_partida = codigo

DeMapa(mapa, codigo) == mapa[CHOOSE i \in 1..Len(mapa) : mapa[i].codigo_partida = codigo]

\* The field test with the threshold included (>= in place of >).
campo_difiere_desde_umbral(campo, original, nueva) ==
    IF campo \in {"metrado", "precio_unitario", "precio_total"}
    THEN Abs(original[campo] - nueva[campo]) >= umbral_diferencia
    ELSE original[campo] # nueva[campo]

\* One field of the comparison loop: Decimal fields differ beyond the threshold,
\* the others differ as strings.
CampoDifiere(campo, original, nueva) ==
    IF campo \in {"metrado", "precio_unitario", "precio_total"}
    THEN Abs(original[campo] - nueva[campo]) > umbral_diferencia
    ELSE original[campo] # nueva[campo]

campos_a_comparar == <<"descripcion", "unidad", "metrado", "precio_unitario", "precio_total">>

_partida_fue_modificada(original, nueva) ==
    \E i \in 1..Len(campos_a_comparar) : CampoDifiere(campos_a_comparar[i], original, nueva)

_obtener_campos_modificados(original, nueva) ==
    SelectSeq(campos_a_comparar, LAMBDA campo : CampoDifiere(campo, original, nueva))

RECURSIVE SumaPrecioTotal(_)
SumaPrecioTotal(partidas) ==
    IF partidas = <<>> THEN 0
    ELSE partidas[1].precio_total + SumaPrecioTotal(Tail(partidas))

RECURSIVE SumaDiferencias(_)
SumaDiferencias(modificadas) ==
    IF modificadas = <<>> THEN 0
    ELSE (modificadas[1].nueva.precio_total - modificadas[1].original.precio_total)
         + SumaDiferencias(Tail(modificadas))

\* The classifier with a changed pair skipped when its extended price did not
\* change (a change of description or unit alone gives no modification).
generar_sin_deductivos_sin_costo(partidas_eliminadas, partidas_nuevas_lista, partidas_modificadas) ==
    [i \in 1..Len(partidas_eliminadas) |->
        ModificacionPartida(REDUCCION_PRESTACIONES, DETECTADA, partidas_eliminadas[i].codigo_partida,
                            partidas_eliminadas[i].descripcion, None,
                            partidas_eliminadas[i].precio_total, 0,
                            -partidas_eliminadas[i].precio_total)]
    \o
    [i \in 1..Len(partidas_nuevas_lista) |->
        ModificacionPartida(ADICIONAL_INDEPENDIENTE, DETECTADA, partidas_nuevas_lista[i].codigo_partida,
                            None, partidas_nuevas_lista[i].descripcion,
                            0, partidas_nuevas_lista[i].precio_total,
                            partidas_nuevas_lista[i].precio_total)]
    \o
    LET con_costo == SelectSeq(partidas_modificadas,
                               LAMBDA m : m.nueva.precio_total # m.original.precio_total)
    IN [i \in 1..Len(con_costo) |->
           ModificacionPartida(DEDUCTIVO_VINCULANTE, DETECTADA, con_costo[i].codigo_partida,
                               con_costo[i].original.descripcion, con_costo[i].nueva.descripcion,
                               con_costo[i].original.precio_total, con_costo[i].nueva.precio_total,
                               con_costo[i].nueva.precio_total - con_costo[i].original.precio_total)]

\* The classifier with its first two loops exchanged: additions before reductions.
generar_adicionales_primero(partidas_eliminadas, partidas_nuevas_lista, partidas_modificadas) ==
    [i \in 1..Len(partidas_nuevas_lista) |->
        ModificacionPartida(ADICIONAL_INDEPENDIENTE, DETECTADA, partidas_nuevas_lista[i].codigo_partida,
                            None, partidas_nuevas_lista[i].descripcion,
                            0, partidas_nuevas_lista[i].precio_total,
                            partidas_nuevas_lista[i].precio_total)]
    \o
    [i \in 1..Len(partidas_eliminadas) |->
        ModificacionPartida(REDUCCION_PRESTACIONES, DETECTADA, partidas_eliminadas[i].codigo_partida,
                            partidas_eliminadas[i].descripcion, None,
                            partidas_eliminadas[i].precio_total, 0,
                            -partidas_eliminadas[i].precio_total)]
    \o
    [i \in 1..Len(partidas_modificadas) |->
        ModificacionPartida(DEDUCTIVO_VINCULANTE, DETECTADA, partidas_modificadas[i].codigo_partida,
                            partidas_modificadas[i].original.descripcion,
                            partidas_modificadas[i].nueva.descripcion,
                            partidas_modificadas[i].original.precio_total,
                            partidas_modificadas[i].nueva.precio_total,
                            partidas_modificadas[i].nueva.precio_total
                               - partidas_modificadas[i].original.precio_total)]

_generar_modificaciones_sugeridas(partidas_eliminadas, partidas_nuevas_lista, partidas_modificadas) ==
    [i \in 1..Len(partidas_eliminadas) |->
        LET partida == partidas_eliminadas[i]
        IN ModificacionPartida(REDUCCION_PRESTACIONES, DETECTADA, partida.codigo_partida,
                               partida.descripcion, None,
                               partida.precio_total, 0, -partida.precio_total)]
    \o
    [i \in 1..Len(partidas_nuevas_lista) |->
        LET partida == partidas_nuevas_lista[i]
        IN ModificacionPartida(ADICIONAL_INDEPENDIENTE, DETECTADA, partida.codigo_partida,
                               None, partida.descripcion,
                               0, partida.precio_total, partida.precio_total)]
    \o
    [i \in 1..Len(partidas_modificadas) |->
        LET mod_data == partidas_modificadas[i]
            precio_original == mod_data.original.precio_total
            precio_nuevo == mod_data.nueva.precio_total
        IN ModificacionPartida(DEDUCTIVO_VINCULANTE, DETECTADA, mod_data.codigo_partida,
                               mod_data.original.descripcion, mod_data.nueva.descripcion,
                               precio_original, precio_nuevo, precio_nuevo - precio_original)]

\* Lines 121-159 of comparar_cronogramas: the impacts and the result, from the
\* three change lists.  The record has exactly the fields of the
\* ComparacionCronogramas dataclass: in particular it has no comisaria_id.
ResultadoComparacion(partidas_eliminadas, partidas_nuevas_lista, partidas_modificadas, modificaciones_sugeridas) ==
    [version_original_id |-> 0,
     version_nueva_id |-> 0,
     partidas_eliminadas |-> partidas_eliminadas,
     partidas_nuevas |-> partidas_nuevas_lista,
     partidas_modificadas |-> partidas_modificadas,
     impacto_reducciones |-> SumaPrecioTotal(partidas_eliminadas),
     impacto_adicionales |-> SumaPrecioTotal(partidas_nuevas_lista),
     balance_preliminar |-> SumaPrecioTotal(partidas_nuevas_lista)
                            - SumaPrecioTotal(partidas_eliminadas)
                            + SumaDiferencias(partidas_modificadas),
     modificaciones_sugeridas |-> modificaciones_sugeridas]

\* Lines 107-119: the changed pairs, in the order of the new map.
PartidasModificadas(mapa_originales, mapa_nuevas) ==
    LET candidatas ==
            SelectSeq(mapa_nuevas, LAMBDA p :
                /\ EnMapa(mapa_originales, p.codigo_partida)
                /\ _partida_fue_modificada(DeMapa(mapa_originales, p.codigo_partida), p))
    IN [i \in 1..Len(candidatas) |->
            [codigo_partida |-> candidatas[i].codigo_partida,
             original |-> DeMapa(mapa_originales, candidatas[i].codigo_partida),
             nueva |-> candidatas[i],
             campos_modificados |->
                _obtener_campos_modificados(
                    DeMapa(mapa_originales, candidatas[i].codigo_partida), candidatas[i])]]

\* The comparison with its second loop run over the original map (the first
\* loop copied and its condition not adapted): no item is ever new.
comparar_mapas_sin_nuevas(mapa_originales, mapa_nuevas) ==
    ResultadoComparacion(
        SelectSeq(mapa_originales, LAMBDA p : ~EnMapa(mapa_nuevas, p.codigo_partida)),
        SelectSeq(mapa_originales, LAMBDA p : ~EnMapa(mapa_originales, p.codigo_partida)),
        PartidasModificadas(mapa_originales, mapa_nuevas),
        _generar_modificaciones_sugeridas(
            SelectSeq(mapa_originales, LAMBDA p : ~EnMapa(mapa_nuevas, p.codigo_partida)),
            <<>>, PartidasModificadas(mapa_originales, mapa_nuevas)))

\* Lines 97-105 and on: the three change lists of two maps.
CompararMapas(mapa_originales, mapa_nuevas) ==
    LET partidas_eliminadas ==
            SelectSeq(mapa_originales, LAMBDA p : ~EnMapa(mapa_nuevas, p.codigo_partida))
        partidas_nuevas_lista ==
            SelectSeq(mapa_nuevas, LAMBDA p : ~EnMapa(mapa_originales, p.codigo_partida))
        partidas_modificadas == PartidasModificadas(mapa_originales, mapa_nuevas)
    IN ResultadoComparacion(partidas_eliminadas, partidas_nuevas_lista, partidas_modificadas,
            _generar_modificaciones_sugeridas(partidas_eliminadas, partidas_nuevas_lista,
                                              partidas_modificadas))

\* The comparison with its loops run over the uploaded rows as parsed, not over
\* the map built from them.
comparar_sin_mapa_nuevas(originales, nuevas) == CompararMapas(Mapa(originales), nuevas)

comparar_cronogramas(originales, nuevas) == CompararMapas(Mapa(originales), Mapa(nuevas))

\* format(x, ',.2f') of a Decimal: x rounded half-even to centimos (the result
\* is the number of centimos the text shows).
Formato2f(x) ==
    LET a == Abs(x)
        q == a \div 2
        centimos == IF a % 2 = 0 THEN q ELSE IF q % 2 = 0 THEN q ELSE q + 1
    IN IF x < 0 THEN -centimos ELSE centimos

\* An alert line: its fixed text and, for the two lines that show an amount,
\* the centimos shown.
Alerta(texto, montos) == [texto |-> texto, montos |-> montos]

\* The reductions total with the impacts added as they are (abs dropped).
RECURSIVE total_reducciones_sin_abs(_)
total_reducciones_sin_abs(modificaciones) ==
    IF modificaciones = <<>> THEN 0
    ELSE LET impacto == calcular_impacto_presupuestal(modificaciones[1])
         IN (IF impacto < 0 THEN impacto ELSE 0) + total_reducciones_sin_abs(Tail(modificaciones))

RECURSIVE TotalReducciones(_)
TotalReducciones(modificaciones) ==
    IF modificaciones = <<>> THEN 0
    ELSE LET impacto == calcular_impacto_presupuestal(modificaciones[1])
         IN (IF impacto < 0 THEN Abs(impacto) ELSE 0) + TotalReducciones(Tail(modificaciones))

RECURSIVE TotalAdicionales(_)
TotalAdicionales(modificaciones) ==
    IF modificaciones = <<>> THEN 0
    ELSE LET impacto == calcular_impacto_presupuestal(modificaciones[1])
         IN (IF impacto < 0 THEN 0 ELSE impacto) + TotalAdicionales(Tail(modificaciones))

\* The result with the alerts chosen with the threshold included (>= and <=).
resultado_alertas_desde_umbral(total_reducciones, total_adicionales, balance) ==
    [esta_equilibrado |-> Abs(balance) < umbral_diferencia,
     total_reducciones |-> Float(total_reducciones),
     total_adicionales |-> Float(total_adicionales),
     balance |-> Float(balance),
     alertas |->
        IF balance >= umbral_diferencia
        THEN <<Alerta("Sobrecosto de S/", <<Formato2f(balance)>>),
               Alerta("Necesitas aumentar reducciones o disminuir adicionales", <<>>)>>
        ELSE IF balance <= -umbral_diferencia
             THEN <<Alerta("Remanente de S/", <<Formato2f(Abs(balance))>>),
                    Alerta("Puedes agregar mas adicionales o reducir menos partidas", <<>>)>>
             ELSE <<Alerta("Balance presupuestal equilibrado", <<>>)>>]

\* Lines 277-298: the result, from the two totals.  The verdict and the alerts
\* are taken on the Decimal balance; the three amounts are returned as floats.
ResultadoValidacion(total_reducciones, total_adicionales, balance) ==
    [esta_equilibrado |-> Abs(balance) < umbral_diferencia,
     total_reducciones |-> Float(total_reducciones),
     total_adicionales |-> Float(total_adicionales),
     balance |-> Float(balance),
     alertas |->
        IF balance > umbral_diferencia
        THEN <<Alerta("Sobrecosto de S/", <<Formato2f(balance)>>),
               Alerta("Necesitas aumentar reducciones o disminuir adicionales", <<>>)>>
        ELSE IF balance < -umbral_diferencia
             THEN <<Alerta("Remanente de S/", <<Formato2f(Abs(balance))>>),
                    Alerta("Puedes agregar mas adicionales o reducir menos partidas", <<>>)>>
             ELSE <<Alerta("Balance presupuestal equilibrado", <<>>)>>]

ValidarTotales(total_reducciones, total_adicionales) ==
    ResultadoValidacion(total_reducciones, total_adicionales,
                        total_adicionales - total_reducciones)

\* The validator with the verdict taken on the signed balance (abs dropped).
validar_sin_valor_absoluto(modificaciones) ==
    [ValidarTotales(TotalReducciones(modificaciones), TotalAdicionales(modificaciones))
        EXCEPT !.esta_equilibrado =
            TotalAdicionales(modificaciones) - TotalReducciones(modificaciones)
                < umbral_diferencia]

validar_equilibrio_presupuestal(modificaciones) ==
    ValidarTotales(TotalReducciones(modificaciones), TotalAdicionales(modificaciones))

\* The list after validar_equilibrio_presupuestal: the loop of lines 270-275
\* calls calcular_impacto_presupuestal() on each entry and does nothing else
\* with it.
ListaTrasValidar(modificaciones) ==
    [i \in 1..Len(modificaciones) |-> TrasCalcularImpacto(modificaciones[i])]

\* The list after sugerir_equilibrio_automatico: it validates, then only reads
\* (the filters and sorted() build new lists).
ListaTrasSugerir(modificaciones) == ListaTrasValidar(modificaciones)

\* A suggestion line: its fixed text and what it shows (the centimos of an
\* amount, or the codes it lists).
Sugerencia(texto, datos) == [texto |-> texto, datos |-> datos]

\* sorted(adicionales, key=lambda x: x.monto_nuevo, reverse=True): a stable
\* sort, so items of equal amount keep their order.
RECURSIVE OrdenarPorMontoNuevo(_)
OrdenarPorMontoNuevo(adicionales) ==
    IF adicionales = <<>> THEN <<>>
    ELSE LET resto == OrdenarPorMontoNuevo(SubSeq(adicionales, 1, Len(adicionales) - 1))
             adic == adicionales[Len(adicionales)]
             k == Cardinality({i \in 1..Len(resto) : resto[i].monto_nuevo >= adic.monto_nuevo})
         IN SubSeq(resto, 1, k) \o <<adic>> \o SubSeq(resto, k + 1, Len(resto))

\* The collection loop with the test `monto_acumulado <= balance`.
RECURSIVE partidas_a_reducir_hasta_igual(_, _, _)
partidas_a_reducir_hasta_igual(adicionales_ordenados, monto_acumulado, balance) ==
    IF adicionales_ordenados = <<>> THEN <<>>
    ELSE IF monto_acumulado <= balance
         THEN <<adicionales_ordenados[1].codigo_partida>>
              \o partidas_a_reducir_hasta_igual(Tail(adicionales_ordenados),
                    monto_acumulado + adicionales_ordenados[1].monto_nuevo, balance)
         ELSE partidas_a_reducir_hasta_igual(Tail(adicionales_ordenados), monto_acumulado, balance)

\* Lines 331-334: the codes collected while the accumulated amount is below
\* the balance.
RECURSIVE PartidasAReducir(_, _, _)
PartidasAReducir(adicionales_ordenados, monto_acumulado, balance) ==
    IF adicionales_ordenados = <<>> THEN <<>>
    ELSE IF monto_acumulado < balance
         THEN <<adicionales_ordenados[1].codigo_partida>>
              \o PartidasAReducir(Tail(adicionales_ordenados),
                                  monto_acumulado + adicionales_ordenados[1].monto_nuevo, balance)
         ELSE PartidasAReducir(Tail(adicionales_ordenados), monto_acumulado, balance)

\* Lines 312-343, from the validator's result.
SugerenciasDe(modificaciones, resultado) ==
    IF resultado.esta_equilibrado
    THEN <<Sugerencia("El presupuesto ya esta equilibrado", <<>>)>>
    ELSE IF DecimalDeFloat(resultado.balance) > 0
    THEN LET reducciones == SelectSeq(modificaciones, LAMBDA m : m.tipo = REDUCCION_PRESTACIONES)
             adicionales == SelectSeq(modificaciones, LAMBDA m : m.tipo = ADICIONAL_INDEPENDIENTE)
             partidas_a_reducir ==
                 PartidasAReducir(OrdenarPorMontoNuevo(adicionales), 0,
                                  DecimalDeFloat(resultado.balance))
         IN (IF reducciones # <<>>
             THEN <<Sugerencia("Considera eliminar partidas adicionales por S/",
                               <<Formato2f(DecimalDeFloat(resultado.balance))>>)>>
             ELSE <<>>)
            \o
            (IF adicionales # <<>> /\ partidas_a_reducir # <<>>
             THEN <<Sugerencia("Considera eliminar estas partidas adicionales",
                               partidas_a_reducir)>>
             ELSE <<>>)
    ELSE <<Sugerencia("Tienes S/ disponibles para agregar mas partidas",
                      <<Formato2f(Abs(DecimalDeFloat(resultado.balance)))>>),
           Sugerencia("Revisa si hay otras mejoras necesarias que puedas incluir", <<>>)>>

sugerir_equilibrio_automatico(modificaciones) ==
    SugerenciasDe(modificaciones, validar_equilibrio_presupuestal(modificaciones))


-----------------------------------------------------------------------------
(* ComparacionCronogramas *)

esta_equilibrada_preliminarmente(comp) == Abs(comp.balance_preliminar) < umbral_diferencia

get_alertas_balance(comp) ==
    IF comp.balance_preliminar > 0
    THEN <<Alerta("Sobrecosto detectado: S/", <<Formato2f(comp.balance_preliminar)>>),
           Alerta("Debes aumentar las reducciones o disminuir los adicionales", <<>>)>>
    ELSE IF comp.balance_preliminar < 0
         THEN <<Alerta("Remanente disponible: S/", <<Formato2f(Abs(comp.balance_preliminar))>>),
                Alerta("Puedes agregar mas adicionales o reducir menos partidas", <<>>)>>
         ELSE <<Alerta("Balance presupuestal equilibrado", <<>>)>>

\* Python attribute access: obj.nombre raises AttributeError unless the object
\* has the attribute.
TieneAtributo(obj, nombre) == nombre \in DOMAIN obj

-----------------------------------------------------------------------------
(* Inputs of the endpoints *)

\* The longest modificaciones_confirmadas list of a request.
MaxSolicitudes == 2

Comisarias == {1}

\* datetime.now() as the endpoints read it, to the second.
Instantes == {1}

Monitores == {"monitor_1"}

Justificaciones == {"", "vicios ocultos"}

Partida(codigo, descripcion, metrado, precio_unitario, precio_total) ==
    [codigo_partida |-> codigo, descripcion |-> descripcion, unidad |-> "UND",
     metrado |-> metrado, precio_unitario |-> precio_unitario, precio_total |-> precio_total]

\* The baseline detectar_cambios parses from the original spreadsheet.
CronogramaOriginal ==
    <<Partida("01.01", "Demolicion", Soles(1), Soles(1000), Soles(1000)),
      Partida("01.02", "Tarrajeo", Soles(1), Soles(500), Soles(500))>>

\* The uploaded spreadsheets: the scenario of one removal, one addition and one
\* change; a removal and an addition of the same amount; an addition of half a
\* centimo (inside the tolerance) and one of exactly 0.01 (on it).
CronogramasModificados ==
    {<<Partida("01.01", "Demolicion", Soles(1), Soles(1200), Soles(1200)),
       Partida("01.03", "Pintura", Soles(1), Soles(300), Soles(300))>>,
     <<Partida("01.01", "Demolicion", Soles(1), Soles(1000), Soles(1000)),
       Partida("01.03", "Pintura", Soles(1), Soles(500), Soles(500))>>,
     Append(CronogramaOriginal, Partida("01.03", "Pintura", Soles(1), 1, 1)),
     Append(CronogramaOriginal, Partida("01.03", "Pintura", Soles(1), 2, 2))}

\* f"comp_{comisaria_id}_{now:%Y%m%d_%H%M%S}"
Token(comisaria_id, instante) == <<"comp", comisaria_id, instante>>

\* A token no detection ever issued.
TokenDesconocido == Token(0, 0)

Tokens == {Token(c, t) : c \in Comisarias, t \in Instantes} \cup {TokenDesconocido}

\* The (codigo_partida, tipo) pairs a request names: the three a detection can
\* suggest.  Each of them matches no suggestion of some uploaded spreadsheet.
ClavesSolicitud ==
    {<<"01.02", REDUCCION_PRESTACIONES>>, <<"01.03", ADICIONAL_INDEPENDIENTE>>,
     <<"01.01", DEDUCTIVO_VINCULANTE>>}

\* ConfirmarModificacionRequest
ConfirmarModificacionRequest ==
    {[codigo_partida |-> k[1], tipo |-> k[2], justificacion |-> j, confirmar |-> TRUE] :
        k \in ClavesSolicitud, j \in Justificaciones}
    \cup
    {[codigo_partida |-> k[1], tipo |-> k[2], justificacion |-> "", confirmar |-> FALSE] :
        k \in ClavesSolicitud}

Solicitudes == UNION {[1..n -> ConfirmarModificacionRequest] : n \in 0..MaxSolicitudes}

-----------------------------------------------------------------------------
(* cronograma_versiones.py: the endpoints *)

\* The history of a call: its endpoint and token, whether the token was a live
\* session when the call began, and of the confirmation loop the length of
\* modificaciones_confirmadas, the sum of the impacts of its entries (what the
\* validator is handed) and the suggestions the request rejected.
SinLlamada == [op |-> "ninguna", token |-> TokenDesconocido, viva |-> FALSE,
               confirmadas |-> 0, impacto_confirmadas |-> 0, rechazadas |-> {}]

RECURSIVE SumaImpactos(_)
SumaImpactos(modificaciones) ==
    IF modificaciones = <<>> THEN 0
    ELSE calcular_impacto_presupuestal(modificaciones[1]) + SumaImpactos(Tail(modificaciones))

Respuesta(op, status, detalle) == [op |-> op, status |-> status, detalle |-> detalle]

\* dict[key] = value
Poner(dict, clave, valor) ==
    [k \in DOMAIN dict \cup {clave} |-> IF k = clave THEN valor ELSE dict[k]]

\* del dict[key]
Quitar(dict, clave) == [k \in DOMAIN dict \ {clave} |-> dict[k]]

\* POST /detectar-cambios.  entorno is what the call finds on disk and in the
\* upload: "ok", "sin_original" (the original spreadsheet is missing: the 404
\* raised inside the try block is caught by `except Exception` and becomes a
\* 500) or "ilegible" (parsear_excel_a_partidas raises ValueError).
\* The cambios_detectados listing of the response is left out.
detectar_cambios(comisaria_id, nombre_archivo, partidas, entorno, ahora) ==
    /\ llamada' = [SinLlamada EXCEPT !.op = "detectar_cambios",
                                     !.token = Token(comisaria_id, ahora)]
    /\ UNCHANGED versiones
    /\ IF nombre_archivo \notin {"xlsx", "xls"}
       THEN /\ respuesta' = Respuesta("detectar_cambios", 400, [error |-> "formato"])
            /\ UNCHANGED comparaciones_activas
       ELSE IF entorno # "ok"
       THEN /\ respuesta' = Respuesta("detectar_cambios", 500, [error |-> entorno])
            /\ UNCHANGED comparaciones_activas
       ELSE LET comp == comparar_cronogramas(CronogramaOriginal, partidas)
                comparacion_id == Token(comisaria_id, ahora)
            IN /\ comparaciones_activas' = Poner(comparaciones_activas, comparacion_id, comp)
               /\ respuesta' = Respuesta("detectar_cambios", 200,
                    [comparacion_id |-> comparacion_id,
                     total_cambios |-> Len(comp.modificaciones_sugeridas),
                     partidas_eliminadas |-> Len(comp.partidas_eliminadas),
                     partidas_nuevas |-> Len(comp.partidas_nuevas),
                     partidas_modificadas |-> Len(comp.partidas_modificadas),
                     balance_preliminar |-> Float(comp.balance_preliminar),
                     esta_equilibrado |-> esta_equilibrada_preliminarmente(comp),
                     alertas |-> get_alertas_balance(comp)])

\* next((m for m in sugeridas if m.codigo_partida == ... and m.tipo == ...), None):
\* the position of the first match, 0 for None.
Buscar(sugeridas, mod_request) ==
    LET coincide == {i \in 1..Len(sugeridas) :
                        /\ sugeridas[i].codigo_partida = mod_request.codigo_partida
                        /\ sugeridas[i].tipo = mod_request.tipo}
    IN IF coincide = {} THEN 0
       ELSE CHOOSE i \in coincide : \A j \in coincide : i <= j

\* The confirmation loop of confirmar_version from request item k on.  The
\* loop writes into the session's own ModificacionPartida objects;
\* confirmadas lists, in order, the position of each object appended to
\* modificaciones_confirmadas; rechazadas collects the suggestions named by an
\* item with confirmar = False (the loop does nothing with them).
\* One item of the loop (lines 241-254); i is the suggestion it names, 0 for none.
PasoConfirmacion(bucle, mod_request, i, monitor_responsable, ahora) ==
    IF mod_request.confirmar
    THEN IF i # 0
         THEN [bucle EXCEPT
                 !.sugeridas[i].estado = JUSTIFICADA,
                 !.sugeridas[i].justificacion_monitor = mod_request.justificacion,
                 !.sugeridas[i].monitor_responsable = monitor_responsable,
                 !.sugeridas[i].confirmada_por_monitor = <<ahora>>,
                 !.confirmadas = Append(@, i)]
         ELSE bucle
    ELSE IF i # 0
         THEN [bucle EXCEPT !.rechazadas = @ \cup {i}]
         ELSE bucle

RECURSIVE BucleConfirmacion(_, _, _, _, _)
BucleConfirmacion(bucle, solicitudes, k, monitor_responsable, ahora) ==
    IF k > Len(solicitudes) THEN bucle
    ELSE BucleConfirmacion(
            PasoConfirmacion(bucle, solicitudes[k], Buscar(bucle.sugeridas, solicitudes[k]),
                             monitor_responsable, ahora),
            solicitudes, k + 1, monitor_responsable, ahora)

RECURSIVE MaxDe(_, _)
\* max(seq, default=defecto)
MaxDe(seq, defecto) ==
    IF seq = <<>> THEN defecto
    ELSE LET resto == MaxDe(Tail(seq), seq[1])
         IN IF seq[1] >= resto THEN seq[1] ELSE resto

RECURSIVE SumaMontoNuevo(_)
SumaMontoNuevo(modificaciones) ==
    IF modificaciones = <<>> THEN 0
    ELSE modificaciones[1].monto_nuevo + SumaMontoNuevo(Tail(modificaciones))

\* Lines 265-303: the version record built after the validation passed.
\* It reads comp.comisaria_id.
NuevaVersion(versiones_data, comp, modificaciones_confirmadas, monitor_responsable, ahora) ==
    LET next_version_id == MaxDe([i \in 1..Len(versiones_data) |-> versiones_data[i].id], 0) + 1
        versiones_comisaria ==
            SelectSeq(versiones_data, LAMBDA v : v.comisaria_id = comp.comisaria_id)
        numero_version ==
            MaxDe([i \in 1..Len(versiones_comisaria) |-> versiones_comisaria[i].numero_version], 0) + 1
    IN [id |-> next_version_id,
        comisaria_id |-> comp.comisaria_id,
        numero_version |-> numero_version,
        descripcion_cambios |-> Len(modificaciones_confirmadas),
        total_partidas |-> Len(comp.partidas_nuevas) + Len(comp.partidas_modificadas),
        total_presupuesto |->
            SumaMontoNuevo(SelectSeq(modificaciones_confirmadas,
                                     LAMBDA m : m.tipo = ADICIONAL_INDEPENDIENTE)),
        balance_presupuestal |-> 0,
        esta_equilibrada |-> TRUE,
        modificaciones |-> modificaciones_confirmadas,
        created_at |-> ahora,
        monitor_responsable |-> monitor_responsable]

\* Lines 259-329 of confirmar_version: what follows the validation.  comp is
\* the session object, its modifications as the loop left them.
TrasValidacion(comparacion_id, comp, modificaciones_confirmadas, resultado, monitor_responsable, ahora) ==
    IF ~resultado.esta_equilibrado
    THEN /\ respuesta' = Respuesta("confirmar_version", 400, [alertas |-> resultado.alertas])
         /\ comparaciones_activas' = Poner(comparaciones_activas, comparacion_id, comp)
         /\ UNCHANGED versiones
    ELSE IF ~TieneAtributo(comp, "comisaria_id")
    THEN \* AttributeError, caught by `except Exception`
         /\ respuesta' = Respuesta("confirmar_version", 500,
                                   [error |-> "AttributeError: comisaria_id"])
         /\ comparaciones_activas' = Poner(comparaciones_activas, comparacion_id, comp)
         /\ UNCHANGED versiones
    ELSE /\ versiones' = Append(versiones,
                NuevaVersion(versiones, comp, modificaciones_confirmadas,
                             monitor_responsable, ahora))
         /\ comparaciones_activas' = Quitar(comparaciones_activas, comparacion_id)
         /\ respuesta' = Respuesta("confirmar_version", 200,
                [version_id |-> versiones'[Len(versiones')].id,
                 numero_version |-> versiones'[Len(versiones')].numero_version,
                 total_modificaciones |-> Len(modificaciones_confirmadas)])

\* Lines 256-257: the validator is handed modificaciones_confirmadas.
TrasConfirmadas(comparacion_id, comp, modificaciones_confirmadas, rechazadas, monitor_responsable, ahora) ==
    /\ llamada' = [op |-> "confirmar_version", token |-> comparacion_id, viva |-> TRUE,
                   confirmadas |-> Len(modificaciones_confirmadas),
                   impacto_confirmadas |-> SumaImpactos(modificaciones_confirmadas),
                   rechazadas |-> rechazadas]
    /\ TrasValidacion(comparacion_id, comp, modificaciones_confirmadas,
                      validar_equilibrio_presupuestal(modificaciones_confirmadas),
                      monitor_responsable, ahora)

\* The call with the session's list replaced by the list of confirmed
\* modifications (comparacion.modificaciones_sugeridas = modificaciones_confirmadas).
tras_bucle_solo_confirmadas(comparacion_id, comp, bucle, monitor_responsable, ahora) ==
    TrasConfirmadas(comparacion_id,
                    [comp EXCEPT !.modificaciones_sugeridas =
                        [j \in 1..Len(bucle.confirmadas) |-> bucle.sugeridas[bucle.confirmadas[j]]]],
                    [j \in 1..Len(bucle.confirmadas) |-> bucle.sugeridas[bucle.confirmadas[j]]],
                    bucle.rechazadas, monitor_responsable, ahora)

\* modificaciones_confirmadas holds the session's own objects, so each entry
\* reads as the loop last wrote it.
TrasBucle(comparacion_id, comp, bucle, monitor_responsable, ahora) ==
    TrasConfirmadas(comparacion_id,
                    [comp EXCEPT !.modificaciones_sugeridas = bucle.sugeridas],
                    [j \in 1..Len(bucle.confirmadas) |-> bucle.sugeridas[bucle.confirmadas[j]]],
                    bucle.rechazadas, monitor_responsable, ahora)

\* POST /confirmar-version
confirmar_version(comparacion_id, solicitudes, monitor_responsable, ahora) ==
    IF comparacion_id \notin DOMAIN comparaciones_activas
    THEN /\ respuesta' = Respuesta("confirmar_version", 404, [error |-> "no encontrada"])
         /\ llamada' = [SinLlamada EXCEPT !.op = "confirmar_version", !.token = comparacion_id]
         /\ UNCHANGED <<comparaciones_activas, versiones>>
    ELSE TrasBucle(comparacion_id, comparaciones_activas[comparacion_id],
                   BucleConfirmacion(
                       [sugeridas |-> comparaciones_activas[comparacion_id].modificaciones_sugeridas,
                        confirmadas |-> <<>>, rechazadas |-> {}],
                       solicitudes, 1, monitor_responsable, ahora),
                   monitor_responsable, ahora)

\* GET /sugerencias-equilibrio/{comparacion_id}: the response for a live session.
RespuestaSugerencias(comparacion_id, comp) ==
    Respuesta("get_sugerencias_equilibrio", 200,
        [comparacion_id |-> comparacion_id,
         sugerencias |-> sugerir_equilibrio_automatico(comp.modificaciones_sugeridas),
         balance_actual |-> Float(comp.balance_preliminar),
         requiere_ajustes |-> ~esta_equilibrada_preliminarmente(comp)])

\* The endpoint with the lookup of the token by dict.get and an empty default
\* in place of the membership test.
sugerencias_sin_404(comparacion_id) ==
    /\ llamada' = [SinLlamada EXCEPT !.op = "get_sugerencias_equilibrio",
                                     !.token = comparacion_id,
                                     !.viva = comparacion_id \in DOMAIN comparaciones_activas]
    /\ UNCHANGED <<comparaciones_activas, versiones>>
    /\ respuesta' =
          IF comparacion_id \notin DOMAIN comparaciones_activas
          THEN RespuestaSugerencias(comparacion_id, CompararMapas(<<>>, <<>>))
          ELSE RespuestaSugerencias(comparacion_id, comparaciones_activas[comparacion_id])

get_sugerencias_equilibrio(comparacion_id) ==
    /\ llamada' = [SinLlamada EXCEPT !.op = "get_sugerencias_equilibrio",
                                     !.token = comparacion_id,
                                     !.viva = comparacion_id \in DOMAIN comparaciones_activas]
    /\ UNCHANGED versiones
    /\ comparaciones_activas' =
          IF comparacion_id \notin DOMAIN comparaciones_activas
          THEN comparaciones_activas
          ELSE [comparaciones_activas EXCEPT
                   ![comparacion_id].modificaciones_sugeridas = ListaTrasSugerir(@)]
    /\ respuesta' =
          IF comparacion_id \notin DOMAIN comparaciones_activas
          THEN Respuesta("get_sugerencias_equilibrio", 404, [error |-> "no encontrada"])
          ELSE RespuestaSugerencias(comparacion_id, comparaciones_activas[comparacion_id])


-----------------------------------------------------------------------------
(* DashboardService._calcular_score_riesgo *)

\* The score is a Python float.  It is modelled in hundredths of a point: the
\* weights and factors of the code give whole hundredths on the inputs below.
Centesimas(puntos) == puntos * 100

Minimo(a, b) == IF a <= b THEN a ELSE b

\* ultimo_reporte as the function treats it: absent, None or "" (falsy); a text
\* fromisoformat rejects; a text with a zone ("...Z" becomes "+00:00"), which
\* parses to an aware datetime that cannot be subtracted from the naive
\* datetime.now(); or a naive date, given by (datetime.now() - fecha).days,
\* negative for a date in the future.
SinReporte == [clase |-> "falta", dias |-> 0]
ReporteInvalido == [clase |-> "invalida", dias |-> 0]
ReporteConZona == [clase |-> "con_zona", dias |-> 0]
ReporteHace(dias) == [clase |-> "fecha", dias |-> dias]

\* Lines 217-226: the staleness factor, with its bare except.
FactorReporte(ultimo_reporte) ==
    IF ultimo_reporte.clase = "falta" THEN 0
    ELSE IF ultimo_reporte.clase \in {"invalida", "con_zona"}
    THEN 100            \* 5.0 * 0.2
    ELSE (Minimo(ultimo_reporte.dias * 50, Centesimas(10)) * 2) \div 10

\* Lines 195-231.  partidas_criticas / total_partidas raises
\* ZeroDivisionError for a total of 0, and the function has no handler for it.
_calcular_score_riesgo(datos) ==
    IF datos.total_partidas = 0
    THEN [excepcion |-> "ZeroDivisionError", score |-> 0]
    ELSE [excepcion |-> "ninguna",
          score |->
            Minimo(
                (Minimo(Abs(datos.diferencia_promedio) * 80, Centesimas(10)) * 4) \div 10
                + (Minimo((datos.partidas_criticas * 100 * 50) \div datos.total_partidas,
                          Centesimas(10)) * 3) \div 10
                + FactorReporte(datos.ultimo_reporte),
                Centesimas(10))]

SinRiesgo ==
    /\ datos_comisaria = [diferencia_promedio |-> 0, total_partidas |-> 1,
                          partidas_criticas |-> 0, ultimo_reporte |-> SinReporte]
    /\ score_riesgo = <<>>

-----------------------------------------------------------------------------
(* Contrato: its personnel *)

\* TipoPersonal
INGENIERO_RESIDENTE == "ingeniero_residente"
MAESTRO_OBRA == "maestro_obra"
MONITOR_NEMAEC == "monitor_nemaec"
REPRESENTANTE_LEGAL == "representante_legal"
ENCARGADO_PNP == "encargado_pnp"

TipoPersonal ==
    {INGENIERO_RESIDENTE, MAESTRO_OBRA, MONITOR_NEMAEC, REPRESENTANTE_LEGAL, ENCARGADO_PNP}

\* PersonalContrato(tipo=..., activo=...): the fields the contract reads or
\* writes.  An optional datetime is <<>> for None and <<t>> otherwise.
PersonalContrato(tipo, activo) ==
    [tipo |-> tipo, activo |-> activo, fecha_inicio |-> <<>>, fecha_fin |-> <<>>]

\* PersonalContrato.esta_activo, with datetime.now() = ahora.
esta_activo(p, ahora) ==
    IF ~p.activo THEN FALSE
    ELSE IF p.fecha_inicio # <<>> /\ ahora < p.fecha_inicio[1] THEN FALSE
    ELSE IF p.fecha_fin # <<>> /\ ahora > p.fecha_fin[1] THEN FALSE
    ELSE TRUE

\* Contrato.get_personal_por_tipo: the identities, in list order.
get_personal_por_tipo(objs, lista, tipo, ahora) ==
    SelectSeq(lista, LAMBDA id : objs[id].tipo = tipo /\ esta_activo(objs[id], ahora))

\* Contrato.get_monitor_activo: <<the first active monitor>>, <<>> for None.
get_monitor_activo(objs, lista, ahora) ==
    IF get_personal_por_tipo(objs, lista, MONITOR_NEMAEC, ahora) # <<>>
    THEN <<get_personal_por_tipo(objs, lista, MONITOR_NEMAEC, ahora)[1]>>
    ELSE <<>>

tipos_unicos == {MONITOR_NEMAEC, REPRESENTANTE_LEGAL}

EnLista(lista, id) == \E k \in 1..Len(lista) : lista[k] = id

\* The loop with its test reduced to `p.activo` (the type not compared).
desactivar_todo_tipo(objs, lista, nuevo, ahora) ==
    [id \in DOMAIN objs |->
        IF /\ objs[nuevo].tipo \in tipos_unicos
           /\ EnLista(lista, id)
           /\ objs[id].activo
        THEN [objs[id] EXCEPT !.activo = FALSE, !.fecha_fin = <<ahora>>]
        ELSE objs[id]]

\* Lines 341-348 of agregar_personal: the objects after the loop that
\* deactivates the listed people of the new person's type.
DesactivarExistentes(objs, lista, nuevo, ahora) ==
    [id \in DOMAIN objs |->
        IF /\ objs[nuevo].tipo \in tipos_unicos
           /\ EnLista(lista, id)
           /\ objs[id].tipo = objs[nuevo].tipo
           /\ objs[id].activo
        THEN [objs[id] EXCEPT !.activo = FALSE, !.fecha_fin = <<ahora>>]
        ELSE objs[id]]

\* Contrato.agregar_personal(personal): objs holds the argument at identity
\* nuevo, which may be an object already in the list.
agregar_personal(objs, nuevo, ahora) ==
    /\ objetos' = DesactivarExistentes(objs, personal, nuevo, ahora)
    /\ personal' = Append(personal, nuevo)

\* Contrato(...): no personnel.
SinContrato ==
    /\ objetos = <<>>
    /\ personal = <<>>

-----------------------------------------------------------------------------
(* Comisaria: its states *)

\* EstadoComisaria
PENDIENTE == "pendiente"
EN_PROCESO == "en_proceso"
COMPLETADA == "completada"
SUSPENDIDA == "suspendida"

\* Comisaria(...): the dataclass defaults, with the budget and the scheduled
\* start its creator gave it.
Comisaria(fecha_inicio_programada, presupuesto_equipamiento, presupuesto_mantenimiento) ==
    [estado |-> PENDIENTE,
     fecha_inicio_programada |-> fecha_inicio_programada,
     fecha_inicio_real |-> <<>>,
     fecha_fin_real |-> <<>>,
     presupuesto_equipamiento |-> presupuesto_equipamiento,
     presupuesto_mantenimiento |-> presupuesto_mantenimiento,
     updated_at |-> <<>>]

presupuesto_total(c) == c.presupuesto_equipamiento + c.presupuesto_mantenimiento

\* The test without its budget condition.
puede_iniciar_sin_presupuesto(c) ==
    /\ c.estado = PENDIENTE
    /\ c.fecha_inicio_programada # <<>>

puede_iniciar_obra(c) ==
    /\ c.estado = PENDIENTE
    /\ presupuesto_total(c) > 0
    /\ c.fecha_inicio_programada # <<>>

\* fecha or datetime.now(): a datetime is never falsy.
FechaO(fecha, ahora) == IF fecha # <<>> THEN fecha ELSE <<ahora>>

iniciar_obra(fecha_inicio, ahora) ==
    IF ~puede_iniciar_obra(comisaria)
    THEN /\ excepcion' = "ValueError"
         /\ UNCHANGED comisaria
    ELSE /\ comisaria' = [comisaria EXCEPT !.estado = EN_PROCESO,
                                           !.fecha_inicio_real = FechaO(fecha_inicio, ahora),
                                           !.updated_at = <<ahora>>]
         /\ excepcion' = "ninguna"

completar_obra(fecha_fin, ahora) ==
    IF comisaria.estado # EN_PROCESO
    THEN /\ excepcion' = "ValueError"
         /\ UNCHANGED comisaria
    ELSE /\ comisaria' = [comisaria EXCEPT !.estado = COMPLETADA,
                                           !.fecha_fin_real = FechaO(fecha_fin, ahora),
                                           !.updated_at = <<ahora>>]
         /\ excepcion' = "ninguna"

suspender_obra(ahora) ==
    IF comisaria.estado \notin {PENDIENTE, EN_PROCESO}
    THEN /\ excepcion' = "ValueError"
         /\ UNCHANGED comisaria
    ELSE /\ comisaria' = [comisaria EXCEPT !.estado = SUSPENDIDA, !.updated_at = <<ahora>>]
         /\ excepcion' = "ninguna"

SinComisaria ==
    /\ comisaria = Comisaria(<<>>, 0, 0)
    /\ excepcion = "sin_llamada"

\* The three entities, idle.
SinEntidades == SinRiesgo /\ SinContrato /\ SinComisaria

-----------------------------------------------------------------------------
(* The endpoints as a state machine *)

\* A call on a token that is not live returns before it reads the rest of the
\* request, so one request stands for all of them there.
SolicitudesPara(comparacion_id) ==
    IF comparacion_id \in DOMAIN comparaciones_activas THEN Solicitudes ELSE {<<>>}

DetectarCambios ==
    \E comisaria_id \in Comisarias, nombre_archivo \in {"xlsx", "pdf"},
       partidas \in CronogramasModificados, entorno \in {"ok", "sin_original", "ilegible"},
       ahora \in Instantes :
        /\ detectar_cambios(comisaria_id, nombre_archivo, partidas, entorno, ahora)
        /\ UNCHANGED <<varsComparar, varsVersion, varsModificacion, varsValidar, varsEntidades>>

ConfirmarVersion ==
    \E comparacion_id \in Tokens :
    \E solicitudes \in SolicitudesPara(comparacion_id),
       monitor_responsable \in Monitores, ahora \in Instantes :
        /\ confirmar_version(comparacion_id, solicitudes, monitor_responsable, ahora)
        /\ UNCHANGED <<varsComparar, varsVersion, varsModificacion, varsValidar, varsEntidades>>

GetSugerenciasEquilibrio ==
    \E comparacion_id \in Tokens :
        /\ get_sugerencias_equilibrio(comparacion_id)
        /\ UNCHANGED <<varsComparar, varsVersion, varsModificacion, varsValidar, varsEntidades>>

InitApi ==
    /\ comparaciones_activas = [t \in {} |-> <<>>]
    /\ versiones = <<>>
    /\ respuesta = Respuesta("ninguna", 0, [error |-> "-"])
    /\ llamada = SinLlamada

\* The other objects of the module, idle while the endpoints run.
SinComparar ==
    /\ partidas_originales = <<>>
    /\ partidas_nuevas = <<>>
    /\ comparacion = <<>>
    /\ validacion = <<>>

\* CronogramaVersion(): the dataclass defaults (lines 93-123), without the
\* descriptive fields nothing reads.
CronogramaVersion ==
    [comisaria_id |-> 0,
     numero_version |-> 1,
     modificaciones |-> <<>>,
     total_reducciones |-> 0,
     total_adicionales |-> 0,
     balance_presupuestal |-> 0,
     esta_equilibrada |-> FALSE,
     aprobada_por_ugpe |-> FALSE]

SinVersion ==
    /\ version = CronogramaVersion
    /\ aprobable = <<>>

SinModificacion ==
    /\ modificacion = ModificacionPartida(ADICIONAL_INDEPENDIENTE, DETECTADA, "", None, None, 0, 0, 0)
    /\ impacto_devuelto = <<>>

\* validar_equilibrio_presupuestal not called.
SinValidar ==
    /\ lista_validada = <<>>
    /\ resultado_validacion = <<>>
    /\ sugerencias_devueltas = <<>>

Init == InitApi /\ SinComparar /\ SinVersion /\ SinModificacion /\ SinValidar /\ SinEntidades

Next == DetectarCambios \/ ConfirmarVersion \/ GetSugerenciasEquilibrio

Spec == Init /\ [][Next]_vars

-----------------------------------------------------------------------------
(* The comparison pipeline as a function of two spreadsheets *)

\* The longest spreadsheet compared.
MaxPartidas == 2

\* The rows of a baseline spreadsheet: the items of the scenario, and 01.01
\* once more at another price (a code a spreadsheet repeats).
FilasOriginales ==
    {Partida("01.01", "Demolicion", Soles(1), Soles(1000), Soles(1000)),
     Partida("01.01", "Demolicion", Soles(1), Soles(1200), Soles(1200)),
     Partida("01.02", "Tarrajeo", Soles(1), Soles(500), Soles(500)),
     Partida("01.03", "Pintura", Soles(1), Soles(300), Soles(300))}

\* The rows of an uploaded spreadsheet: those of the baseline, and 01.01 at
\* 1000 with one thing changed: the description; the unit; every amount moved
\* inside the tolerance (quantity and unit price by exactly 0.01, the extended
\* price by 0.005); the quantity, the unit price or the extended price alone
\* moved by 0.015; and 01.02 at another price.
Filas ==
    FilasOriginales
    \cup
    {Partida("01.02", "Tarrajeo", Soles(1), Soles(700), Soles(700)),
     Partida("01.01", "Demolicion de muros", Soles(1), Soles(1000), Soles(1000)),
     [Partida("01.01", "Demolicion", Soles(1), Soles(1000), Soles(1000)) EXCEPT !.unidad = "M2"],
     Partida("01.01", "Demolicion", Soles(1) + 2, Soles(1000) - 2, Soles(1000) + 1),
     Partida("01.01", "Demolicion", Soles(1) + 3, Soles(1000), Soles(1000)),
     Partida("01.01", "Demolicion", Soles(1), Soles(1000) - 3, Soles(1000)),
     Partida("01.01", "Demolicion", Soles(1), Soles(1000), Soles(1000) + 3)}

CronogramasOriginales == UNION {[1..n -> FilasOriginales] : n \in 0..MaxPartidas}

Cronogramas == UNION {[1..n -> Filas] : n \in 0..MaxPartidas}

InitComparar ==
    /\ InitApi /\ SinVersion /\ SinModificacion /\ SinValidar /\ SinEntidades
    /\ partidas_originales \in CronogramasOriginales
    /\ partidas_nuevas \in Cronogramas
    /\ comparacion = <<>>
    /\ validacion = <<>>

Comparar ==
    /\ comparacion = <<>>
    /\ comparacion' = <<comparar_cronogramas(partidas_originales, partidas_nuevas)>>
    /\ UNCHANGED <<partidas_originales, partidas_nuevas, validacion>>
    /\ UNCHANGED <<varsApi, varsVersion, varsModificacion, varsValidar, varsEntidades>>

Validar ==
    /\ comparacion # <<>>
    /\ validacion = <<>>
    /\ validacion' = <<validar_equilibrio_presupuestal(comparacion[1].modificaciones_sugeridas)>>
    /\ UNCHANGED <<partidas_originales, partidas_nuevas, comparacion>>
    /\ UNCHANGED <<varsApi, varsVersion, varsModificacion, varsValidar, varsEntidades>>

NextComparar == Comparar \/ Validar

SpecComparar == InitComparar /\ [][NextComparar]_vars

-----------------------------------------------------------------------------
(* One ModificacionPartida *)

Montos == {0, 1, 2, Soles(500), Soles(1000)}

\* Objects as their constructor leaves them: no linkage to a removed item.
InitModificacion ==
    /\ InitApi /\ SinComparar /\ SinVersion /\ SinValidar /\ SinEntidades
    /\ modificacion \in
          {ModificacionPartida(tipo, DETECTADA, "01.01", "Demolicion", "Demolicion de muros",
                               monto_anterior, monto_nuevo, 0) :
              tipo \in TipoModificacion, monto_anterior \in Montos, monto_nuevo \in Montos}
    /\ impacto_devuelto = <<>>

\* A caller links the modification to the removed item it compensates.
Vincular ==
    \E monto \in Montos :
        /\ modificacion.partida_eliminada_codigo = None
        /\ modificacion' = [modificacion EXCEPT !.partida_eliminada_codigo = "01.02",
                                                !.partida_eliminada_monto = monto]
        /\ impacto_devuelto' = <<>>
        /\ UNCHANGED <<varsApi, varsComparar, varsVersion, varsValidar, varsEntidades>>

CalcularImpacto ==
    /\ impacto_devuelto = <<>>
    /\ impacto_devuelto' = <<calcular_impacto_presupuestal(modificacion), es_equilibrada(modificacion)>>
    /\ UNCHANGED <<modificacion, varsApi, varsComparar, varsVersion, varsValidar, varsEntidades>>

NextModificacion == Vincular \/ CalcularImpacto

SpecModificacion == InitModificacion /\ [][NextModificacion]_vars

-----------------------------------------------------------------------------
(* One CronogramaVersion *)

\* The longest modification list of the version.
MaxModificaciones == 2

MontosVersion == {0, Soles(500)}

EstadosVersion == {DETECTADA, JUSTIFICADA, RECHAZADA}

\* The modifications a caller appends: a reduction, an addition and a change
\* of an item that cost nothing before, detected or already justified.
ModificacionesVersion ==
    {ModificacionPartida(REDUCCION_PRESTACIONES, estado, "01.02", "Tarrajeo", None,
                         Soles(500), 0, -Soles(500)) : estado \in {DETECTADA, JUSTIFICADA}}
    \cup
    {ModificacionPartida(ADICIONAL_INDEPENDIENTE, estado, "01.03", None, "Pintura",
                         0, Soles(500), Soles(500)) : estado \in {DETECTADA, JUSTIFICADA}}
    \cup
    {ModificacionPartida(DEDUCTIVO_VINCULANTE, estado, "01.01", "Demolicion", "Demolicion de muros",
                         0, Soles(500), Soles(500)) : estado \in {DETECTADA, JUSTIFICADA}}

calcular_balance_presupuestal(v) ==
    [v EXCEPT !.total_reducciones = TotalReducciones(v.modificaciones),
              !.total_adicionales = TotalAdicionales(v.modificaciones),
              !.balance_presupuestal =
                    TotalAdicionales(v.modificaciones) - TotalReducciones(v.modificaciones),
              !.esta_equilibrada =
                    Abs(TotalAdicionales(v.modificaciones) - TotalReducciones(v.modificaciones))
                        < umbral_diferencia]

puede_ser_aprobada(v) ==
    IF ~v.esta_equilibrada THEN FALSE
    ELSE \A i \in 1..Len(v.modificaciones) :
            v.modificaciones[i].estado \in {JUSTIFICADA, APROBADA}

\* The modification list is a public field of the dataclass: callers change it
\* and its objects directly, and no method of CronogramaVersion runs when they do.
AgregarModificacion ==
    \E mod \in ModificacionesVersion :
        /\ Len(version.modificaciones) < MaxModificaciones
        /\ version' = [version EXCEPT !.modificaciones = Append(@, mod)]
        /\ aprobable' = <<>>
        /\ UNCHANGED <<varsApi, varsComparar, varsModificacion, varsValidar, varsEntidades>>

QuitarModificacion ==
    \E i \in 1..Len(version.modificaciones) :
        /\ version' = [version EXCEPT !.modificaciones =
                          SubSeq(@, 1, i - 1) \o SubSeq(@, i + 1, Len(@))]
        /\ aprobable' = <<>>
        /\ UNCHANGED <<varsApi, varsComparar, varsModificacion, varsValidar, varsEntidades>>

CambiarMonto ==
    \E i \in 1..Len(version.modificaciones), monto \in MontosVersion :
        /\ version' = [version EXCEPT !.modificaciones[i].monto_nuevo = monto]
        /\ aprobable' = <<>>
        /\ UNCHANGED <<varsApi, varsComparar, varsModificacion, varsValidar, varsEntidades>>

CambiarEstado ==
    \E i \in 1..Len(version.modificaciones), estado \in EstadosVersion :
        /\ version' = [version EXCEPT !.modificaciones[i].estado = estado]
        /\ aprobable' = <<>>
        /\ UNCHANGED <<varsApi, varsComparar, varsModificacion, varsValidar, varsEntidades>>

CalcularBalance ==
    /\ version' = calcular_balance_presupuestal(version)
    /\ aprobable' = <<>>
    /\ UNCHANGED <<varsApi, varsComparar, varsModificacion, varsValidar, varsEntidades>>

PuedeSerAprobada ==
    /\ aprobable' = <<puede_ser_aprobada(version)>>
    /\ UNCHANGED <<version, varsApi, varsComparar, varsModificacion, varsValidar, varsEntidades>>

NextVersion ==
    \/ AgregarModificacion
    \/ QuitarModificacion
    \/ CambiarMonto
    \/ CambiarEstado
    \/ CalcularBalance
    \/ PuedeSerAprobada

InitVersion == InitApi /\ SinComparar /\ SinVersion /\ SinModificacion /\ SinValidar /\ SinEntidades

SpecVersion == InitVersion /\ [][NextVersion]_vars

-----------------------------------------------------------------------------
(* The validator as a function of a modification list *)

\* The longest list validated.
MaxLista == 3

\* The modifications of a list: reductions and additions of half a centimo, of
\* 0.01, of 0.015 and of S/ 500, each addition under its own code, one more
\* addition of 0.015 under another code, and deductives of S/ 500 for an item
\* of S/ 1000: not linked (impact +500), linked to a removed item of S/ 500
\* (impact 0) and to one of S/ 1000 (impact -500).
ModificacionesValidar ==
    {ModificacionPartida(REDUCCION_PRESTACIONES, JUSTIFICADA, "01.02", "Tarrajeo", None,
                         monto, 0, -monto) : monto \in {1, 2, 3, Soles(500)}}
    \cup
    {ModificacionPartida(ADICIONAL_INDEPENDIENTE, JUSTIFICADA, adic[1], None, "Pintura",
                         0, adic[2], adic[2]) :
        adic \in {<<"01.03", Soles(500)>>, <<"01.04", 3>>, <<"01.05", 2>>, <<"01.06", 1>>,
                  <<"01.07", 3>>}}
    \cup
    {ModificacionPartida(DEDUCTIVO_VINCULANTE, DETECTADA, "01.01", "Demolicion",
                         "Demolicion de muros", Soles(1000), Soles(500), -Soles(500))}
    \cup
    {[ModificacionPartida(DEDUCTIVO_VINCULANTE, JUSTIFICADA, "01.01", "Demolicion",
                          "Demolicion de muros", Soles(1000), Soles(500),
                          Soles(500) - monto)
         EXCEPT !.partida_eliminada_codigo = "01.08", !.partida_eliminada_monto = monto] :
        monto \in {Soles(500), Soles(1000)}}

ListasValidar == UNION {[1..n -> ModificacionesValidar] : n \in 0..MaxLista}

InitValidar ==
    /\ InitApi /\ SinComparar /\ SinVersion /\ SinModificacion /\ SinEntidades
    /\ lista_validada \in ListasValidar
    /\ resultado_validacion = <<>>
    /\ sugerencias_devueltas = <<>>

\* The service is called as often as its caller likes, on the same list.
ValidarEquilibrio ==
    /\ resultado_validacion' = <<validar_equilibrio_presupuestal(lista_validada)>>
    /\ lista_validada' = ListaTrasValidar(lista_validada)
    /\ UNCHANGED <<sugerencias_devueltas, varsApi, varsComparar, varsVersion, varsModificacion, varsEntidades>>

SugerirEquilibrio ==
    /\ sugerencias_devueltas' = <<sugerir_equilibrio_automatico(lista_validada)>>
    /\ lista_validada' = ListaTrasSugerir(lista_validada)
    /\ UNCHANGED <<resultado_validacion, varsApi, varsComparar, varsVersion, varsModificacion, varsEntidades>>

NextValidar == ValidarEquilibrio \/ SugerirEquilibrio

SpecValidar == InitValidar /\ [][NextValidar]_vars

-----------------------------------------------------------------------------
(* Properties of the endpoints (Spec) *)

\* The last call was confirmar_version on a live session.
ConfirmoSesionViva == llamada.op = "confirmar_version" /\ llamada.viva

\* The list that call handed to the validator is not balanced: |balance| >= 0.01.
ConfirmadasNoEquilibradas ==
    ConfirmoSesionViva /\ Abs(llamada.impacto_confirmadas) >= umbral_diferencia

ConfirmadasEquilibradas ==
    ConfirmoSesionViva /\ Abs(llamada.impacto_confirmadas) < umbral_diferencia

\* The validator's alert list for a balance.
AlertasDelValidador(balance) == ResultadoValidacion(0, 0, balance).alertas

\* Every modification a live session holds.
ModificacionesVivas ==
    UNION {{comparaciones_activas[t].modificaciones_sugeridas[i] :
                i \in 1..Len(comparaciones_activas[t].modificaciones_sugeridas)} :
           t \in DOMAIN comparaciones_activas}

\* Every modification a persisted version embeds.
ModificacionesPersistidas ==
    UNION {{versiones[n].modificaciones[i] : i \in 1..Len(versiones[n].modificaciones)} :
           n \in 1..Len(versiones)}

\* C1: a confirmar_version call on a live session whose confirmed modifications
\* are not balanced (|balance| >= 0.01) answers 400 with the validator's alert
\* list for that balance and leaves the persisted versions as they were, so no
\* version, balanced or not, is recorded for the set.
C1_DesequilibrioRechazado ==
    [][ConfirmadasNoEquilibradas' =>
          /\ respuesta'.status = 400
          /\ respuesta'.detalle.alertas = AlertasDelValidador(llamada'.impacto_confirmadas)
          /\ versiones' = versiones]_vars

\* C1 witness: an unbalanced, non-empty confirmed list was rejected with its alerts.
C1_Witness ==
    /\ ConfirmadasNoEquilibradas
    /\ llamada.confirmadas >= 1
    /\ respuesta.status = 400
    /\ Len(respuesta.detalle.alertas) = 2

\* C3: a confirmar_version call on a live session whose confirmed modifications
\* the validator judges balanced appends exactly one version record, for the
\* station of the comparison and embedding the confirmed modifications, and
\* removes the session (so that the token is not found afterwards); stated for
\* the calls that confirm at least one modification.
C3_ConfirmacionPersiste ==
    [][(ConfirmadasEquilibradas' /\ llamada'.confirmadas >= 1) =>
          /\ Len(versiones') = Len(versiones) + 1
          /\ versiones'[Len(versiones')].comisaria_id = llamada'.token[2]
          /\ Len(versiones'[Len(versiones')].modificaciones) = llamada'.confirmadas
          /\ llamada'.token \notin DOMAIN comparaciones_activas']_vars

\* C4: every modification, as the classifier created it and after any
\* confirmation, stores the impact calcular_impacto_presupuestal() returns for it.
C4_ImpactoAlmacenado ==
    \A mod \in ModificacionesVivas \cup ModificacionesPersistidas :
        mod.impacto_presupuestal = calcular_impacto_presupuestal(mod)

\* C8: a modification is moved to JUSTIFICADA only by a confirmation with a
\* non-empty justification, which records the monitor and the timestamp.
C8_JustificadaConJustificacion ==
    \A mod \in ModificacionesVivas :
        mod.estado = JUSTIFICADA =>
            /\ mod.justificacion_monitor \notin {None, ""}
            /\ mod.monitor_responsable # None
            /\ mod.confirmada_por_monitor # <<>>

\* C9: a modification the monitor rejects (confirmar = false) ends in RECHAZADA,
\* and a modification in RECHAZADA stays there over every later call.
C9_RechazoPersiste ==
    [][/\ (ConfirmoSesionViva' /\ llamada'.token \in DOMAIN comparaciones_activas') =>
             \A i \in llamada'.rechazadas :
                comparaciones_activas'[llamada'.token].modificaciones_sugeridas[i].estado
                    = RECHAZADA
       /\ \A t \in DOMAIN comparaciones_activas \cap DOMAIN comparaciones_activas' :
             \A i \in 1..Len(comparaciones_activas[t].modificaciones_sugeridas) :
                (/\ respuesta'.op = "confirmar_version"
                 /\ comparaciones_activas[t].modificaciones_sugeridas[i].estado = RECHAZADA)
                    => comparaciones_activas'[t].modificaciones_sugeridas[i].estado = RECHAZADA
      ]_vars

\* C10: a confirmar_version call that fails (400 or 500) leaves every
\* modification of every session exactly as it was before the call.
C10_FalloSinCambios ==
    [][(respuesta'.op = "confirmar_version" /\ respuesta'.status \in {400, 500}) =>
          comparaciones_activas' = comparaciones_activas]_vars

-----------------------------------------------------------------------------
(* Properties of the comparison pipeline (SpecComparar) *)

\* C5: the balance the validator computes over the modifications of a
\* comparison equals the comparison's balance_preliminar, with the same verdict;
\* on baseline {01.01: 1000, 01.02: 500} against {01.01: 1200, 01.03: 300} both
\* are 0 and balanced, with the confirmation alert alone.
C5_BalanceCoincide ==
    validacion # <<>> =>
        /\ validacion[1].balance = Float(comparacion[1].balance_preliminar)
        /\ validacion[1].esta_equilibrado = esta_equilibrada_preliminarmente(comparacion[1])
        /\ (/\ partidas_originales = CronogramaOriginal
            /\ partidas_nuevas =
                  <<Partida("01.01", "Demolicion", Soles(1), Soles(1200), Soles(1200)),
                    Partida("01.03", "Pintura", Soles(1), Soles(300), Soles(300))>>)
              => /\ comparacion[1].balance_preliminar = 0
                 /\ validacion[1].balance = Float(0)
                 /\ validacion[1].esta_equilibrado
                 /\ Len(validacion[1].alertas) = 1

-----------------------------------------------------------------------------
(* Properties of one modification (SpecModificacion) *)

\* C6: the impact of a DEDUCTIVO_VINCULANTE is monto_nuevo minus the linked
\* removed amount when a linkage is set and monto_nuevo minus monto_anterior when
\* none is, so an unlinked change that keeps its amount has impact 0 and is
\* balanced.
C6_ImpactoDeductivo ==
    (impacto_devuelto # <<>> /\ modificacion.tipo = DEDUCTIVO_VINCULANTE) =>
        /\ impacto_devuelto[1] =
              IF modificacion.partida_eliminada_codigo # None
              THEN modificacion.monto_nuevo - modificacion.partida_eliminada_monto
              ELSE modificacion.monto_nuevo - modificacion.monto_anterior
        /\ (/\ modificacion.partida_eliminada_codigo = None
            /\ modificacion.monto_nuevo = modificacion.monto_anterior)
              => (impacto_devuelto[1] = 0 /\ impacto_devuelto[2])

-----------------------------------------------------------------------------
(* Properties of one version (SpecVersion) *)

\* The balance of the list the version holds now.
BalanceActual ==
    TotalAdicionales(version.modificaciones) - TotalReducciones(version.modificaciones)

\* C2: puede_ser_aprobada() returns true only if the modifications the version
\* holds now are balanced and each of them is JUSTIFICADA or APROBADA.
C2_AprobableSoloEquilibrada ==
    aprobable = <<TRUE>> =>
        /\ Abs(BalanceActual) < umbral_diferencia
        /\ \A i \in 1..Len(version.modificaciones) :
              version.modificaciones[i].estado \in {JUSTIFICADA, APROBADA}

\* C7: after any change of the list, the totals, the balance and the balanced
\* flag of the version are those of the list it holds now, and an empty list reads
\* as balanced with balance 0.
C7_TotalesAlDia ==
    /\ version.total_reducciones = TotalReducciones(version.modificaciones)
    /\ version.total_adicionales = TotalAdicionales(version.modificaciones)
    /\ version.balance_presupuestal = BalanceActual
    /\ version.esta_equilibrada <=> (Abs(version.balance_presupuestal) < umbral_diferencia)
    /\ version.modificaciones = <<>> =>
          (version.esta_equilibrada /\ version.balance_presupuestal = 0)

-----------------------------------------------------------------------------
(* Version numbering (Spec) *)

\* The persisted versions of one station, in creation order.
VersionesDe(versiones_data, comisaria_id) ==
    SelectSeq(versiones_data, LAMBDA v : v.comisaria_id = comisaria_id)

\* The versions of every station are numbered 1, 2, 3, ... in creation order
\* and no two versions share an id.
NumeracionCorrelativa(versiones_data) ==
    /\ \A c \in Comisarias :
          \A i \in 1..Len(VersionesDe(versiones_data, c)) :
             VersionesDe(versiones_data, c)[i].numero_version = i
    /\ \A i, j \in 1..Len(versiones_data) :
          versiones_data[i].id = versiones_data[j].id => i = j

\* C11: every successful confirmation (a confirmar_version call on a live
\* session whose confirmed, non-empty list is balanced) gives its station one
\* more version, numbered the station's current maximum + 1, so that the
\* versions of each station read 1, 2, 3, ... in creation order and no two
\* versions share a (station, numero_version) pair or an id.
C11_NumeracionCorrelativa ==
    [][(ConfirmadasEquilibradas' /\ llamada'.confirmadas >= 1) =>
          /\ Len(VersionesDe(versiones', llamada'.token[2]))
                = Len(VersionesDe(versiones, llamada'.token[2])) + 1
          /\ versiones'[Len(versiones')].numero_version
                = Len(VersionesDe(versiones, llamada'.token[2])) + 1
          /\ NumeracionCorrelativa(versiones')]_vars

-----------------------------------------------------------------------------
(* Unknown tokens (Spec) *)

\* C12: confirmar_version and get_sugerencias_equilibrio, called with a token
\* that is not an active session when the call begins, answer 404 (not found)
\* and change neither the active sessions nor the persisted versions.
C12_TokenNoEncontrado ==
    [][(/\ respuesta'.op \in {"confirmar_version", "get_sugerencias_equilibrio"}
        /\ llamada'.token \notin DOMAIN comparaciones_activas) =>
          /\ respuesta'.status = 404
          /\ comparaciones_activas' = comparaciones_activas
          /\ versiones' = versiones]_vars

\* C12 witness: while a session is live, suggestions were asked for under a
\* token that is not a session, and the answer was 404.
C12_Witness ==
    /\ respuesta.op = "get_sugerencias_equilibrio"
    /\ respuesta.status = 404
    /\ llamada.token \notin DOMAIN comparaciones_activas
    /\ DOMAIN comparaciones_activas # {}

-----------------------------------------------------------------------------
(* Audit trail (Spec) *)

\* What identifies a modification: everything but its state and the record of
\* its confirmation.
Identidad(mod) ==
    <<mod.tipo, mod.codigo_partida, mod.descripcion_anterior, mod.descripcion_nueva,
      mod.monto_anterior, mod.monto_nuevo, mod.impacto_presupuestal>>

\* The modifications, by identity, that the session of a token or a persisted
\* version of its station holds.
Conservadas(sesiones, versiones_data, token) ==
    (IF token \in DOMAIN sesiones
     THEN {Identidad(sesiones[token].modificaciones_sugeridas[i]) :
              i \in 1..Len(sesiones[token].modificaciones_sugeridas)}
     ELSE {})
    \cup
    UNION {{Identidad(versiones_data[n].modificaciones[i]) :
               i \in 1..Len(versiones_data[n].modificaciones)} :
           n \in {m \in 1..Len(versiones_data) : versiones_data[m].comisaria_id = token[2]}}

-----------------------------------------------------------------------------
(* Properties of the comparator and the classifier (SpecComparar) *)

\* The codes of a list of rows or of change entries.
CodigosDe(lista) == {lista[i].codigo_partida : i \in 1..Len(lista)}

SinRepetidos(lista) ==
    \A i, j \in 1..Len(lista) : lista[i].codigo_partida = lista[j].codigo_partida => i = j

\* C14: the comparison reports as removed exactly the codes of the baseline
\* absent from the candidate, as added exactly the codes of the candidate absent
\* from the baseline, and as changed only codes present in both; each code is
\* reported at most once, so the three sets are pairwise disjoint.
C14_ConjuntosDeCambios ==
    comparacion # <<>> =>
        /\ CodigosDe(comparacion[1].partidas_eliminadas)
              = CodigosDe(partidas_originales) \ CodigosDe(partidas_nuevas)
        /\ CodigosDe(comparacion[1].partidas_nuevas)
              = CodigosDe(partidas_nuevas) \ CodigosDe(partidas_originales)
        /\ CodigosDe(comparacion[1].partidas_modificadas)
              \subseteq CodigosDe(partidas_originales) \cap CodigosDe(partidas_nuevas)
        /\ SinRepetidos(comparacion[1].partidas_eliminadas)
        /\ SinRepetidos(comparacion[1].partidas_nuevas)
        /\ SinRepetidos(comparacion[1].partidas_modificadas)
        /\ CodigosDe(comparacion[1].partidas_eliminadas)
              \cap CodigosDe(comparacion[1].partidas_nuevas) = {}
        /\ CodigosDe(comparacion[1].partidas_eliminadas)
              \cap CodigosDe(comparacion[1].partidas_modificadas) = {}
        /\ CodigosDe(comparacion[1].partidas_nuevas)
              \cap CodigosDe(comparacion[1].partidas_modificadas) = {}

\* C14 witness: a comparison with a removed, an added and a changed item.
C14_Witness ==
    /\ comparacion # <<>>
    /\ comparacion[1].partidas_eliminadas # <<>>
    /\ comparacion[1].partidas_nuevas # <<>>
    /\ comparacion[1].partidas_modificadas # <<>>

\* Two amounts differ by more than the 0.01 tolerance.
FueraDeTolerancia(a, b) == a - b > 2 \/ b - a > 2

\* The pair of rows of a code present on both sides differs in a tracked field.
ParCambiado(original, nueva) ==
    \/ original.descripcion # nueva.descripcion
    \/ original.unidad # nueva.unidad
    \/ FueraDeTolerancia(original.metrado, nueva.metrado)
    \/ FueraDeTolerancia(original.precio_unitario, nueva.precio_unitario)
    \/ FueraDeTolerancia(original.precio_total, nueva.precio_total)

\* C15: a code present on both sides is reported as changed if and only if the
\* description or the unit differ as strings, or the quantity, the unit price or
\* the extended price differ by more than 0.01; a pair that differs by at most
\* 0.01 in every amount and in no text is not reported.
C15_CambioFueraDeTolerancia ==
    comparacion # <<>> =>
        \A codigo \in CodigosDe(partidas_originales) \cap CodigosDe(partidas_nuevas) :
            (codigo \in CodigosDe(comparacion[1].partidas_modificadas))
               <=> ParCambiado(UltimaCon(partidas_originales, codigo),
                               UltimaCon(partidas_nuevas, codigo))

\* C15 witness: a pair whose amounts all differ, none by more than 0.01 (two of
\* them by exactly 0.01), was compared and not reported.
C15_Witness ==
    /\ comparacion # <<>>
    /\ Len(partidas_originales) = 1
    /\ Len(partidas_nuevas) = 1
    /\ partidas_originales[1].codigo_partida = partidas_nuevas[1].codigo_partida
    /\ Abs(partidas_originales[1].metrado - partidas_nuevas[1].metrado) = 2
    /\ Abs(partidas_originales[1].precio_unitario - partidas_nuevas[1].precio_unitario) = 2
    /\ Abs(partidas_originales[1].precio_total - partidas_nuevas[1].precio_total) = 1
    /\ comparacion[1].partidas_modificadas = <<>>

\* C16: comparing a list with itself gives no removed, added or changed item,
\* no suggested modification and a preliminary balance of 0.
C16_CompararConsigoMismo ==
    (comparacion # <<>> /\ partidas_originales = partidas_nuevas) =>
        /\ comparacion[1].partidas_eliminadas = <<>>
        /\ comparacion[1].partidas_nuevas = <<>>
        /\ comparacion[1].partidas_modificadas = <<>>
        /\ comparacion[1].modificaciones_sugeridas = <<>>
        /\ comparacion[1].balance_preliminar = 0

\* C16 witness: a list that names one code in two different rows was compared
\* with itself.
C16_Witness ==
    /\ comparacion # <<>>
    /\ partidas_originales = partidas_nuevas
    /\ Len(partidas_originales) = 2
    /\ partidas_originales[1].codigo_partida = partidas_originales[2].codigo_partida
    /\ partidas_originales[1] # partidas_originales[2]

\* The positions of the modifications of one kind.
DeTipo(modificaciones, tipo) == {j \in 1..Len(modificaciones) : modificaciones[j].tipo = tipo}

\* C17: the classifier maps change entries to modifications 1:1: one
\* REDUCCION_PRESTACIONES per removed item (monto_anterior its extended price,
\* monto_nuevo 0), one ADICIONAL_INDEPENDIENTE per added item (monto_anterior 0,
\* monto_nuevo its extended price), one DEDUCTIVO_VINCULANTE per changed pair
\* with both descriptions and both amounts, every one in state DETECTADA, and
\* nothing else: the number of modifications of each kind is the size of its
\* change set.
C17_ClasificacionUnoAUno ==
    comparacion # <<>> =>
        LET c == comparacion[1]
            mods == c.modificaciones_sugeridas
        IN /\ Cardinality(DeTipo(mods, REDUCCION_PRESTACIONES)) = Len(c.partidas_eliminadas)
           /\ Cardinality(DeTipo(mods, ADICIONAL_INDEPENDIENTE)) = Len(c.partidas_nuevas)
           /\ Cardinality(DeTipo(mods, DEDUCTIVO_VINCULANTE)) = Len(c.partidas_modificadas)
           /\ Len(mods) = Len(c.partidas_eliminadas) + Len(c.partidas_nuevas)
                             + Len(c.partidas_modificadas)
           /\ \A j \in 1..Len(mods) : mods[j].estado = DETECTADA
           /\ \A i \in 1..Len(c.partidas_eliminadas) :
                 Cardinality({j \in DeTipo(mods, REDUCCION_PRESTACIONES) :
                    /\ mods[j].codigo_partida = c.partidas_eliminadas[i].codigo_partida
                    /\ mods[j].monto_anterior = c.partidas_eliminadas[i].precio_total
                    /\ mods[j].monto_nuevo = 0}) = 1
           /\ \A i \in 1..Len(c.partidas_nuevas) :
                 Cardinality({j \in DeTipo(mods, ADICIONAL_INDEPENDIENTE) :
                    /\ mods[j].codigo_partida = c.partidas_nuevas[i].codigo_partida
                    /\ mods[j].monto_anterior = 0
                    /\ mods[j].monto_nuevo = c.partidas_nuevas[i].precio_total}) = 1
           /\ \A i \in 1..Len(c.partidas_modificadas) :
                 Cardinality({j \in DeTipo(mods, DEDUCTIVO_VINCULANTE) :
                    /\ mods[j].codigo_partida = c.partidas_modificadas[i].codigo_partida
                    /\ mods[j].descripcion_anterior = c.partidas_modificadas[i].original.descripcion
                    /\ mods[j].descripcion_nueva = c.partidas_modificadas[i].nueva.descripcion
                    /\ mods[j].monto_anterior = c.partidas_modificadas[i].original.precio_total
                    /\ mods[j].monto_nuevo = c.partidas_modificadas[i].nueva.precio_total}) = 1

\* C17 witness: a pair that changed in its description alone was classified,
\* next to a removed item: a DEDUCTIVO_VINCULANTE that keeps its amount.
C17_Witness ==
    /\ comparacion # <<>>
    /\ comparacion[1].partidas_eliminadas # <<>>
    /\ \E j \in 1..Len(comparacion[1].modificaciones_sugeridas) :
          /\ comparacion[1].modificaciones_sugeridas[j].tipo = DEDUCTIVO_VINCULANTE
          /\ comparacion[1].modificaciones_sugeridas[j].monto_anterior
                = comparacion[1].modificaciones_sugeridas[j].monto_nuevo
          /\ comparacion[1].modificaciones_sugeridas[j].descripcion_anterior
                # comparacion[1].modificaciones_sugeridas[j].descripcion_nueva

\* C18: the classifier emits all reductions, then all additions, then all
\* linked deductives, each group in the order of its change set.
C18_OrdenDeEmision ==
    comparacion # <<>> =>
        LET c == comparacion[1]
            mods == c.modificaciones_sugeridas
            e == Len(c.partidas_eliminadas)
            n == Len(c.partidas_nuevas)
            m == Len(c.partidas_modificadas)
        IN /\ Len(mods) = e + n + m
           /\ \A i \in 1..e :
                 /\ mods[i].tipo = REDUCCION_PRESTACIONES
                 /\ mods[i].codigo_partida = c.partidas_eliminadas[i].codigo_partida
           /\ \A i \in 1..n :
                 /\ mods[e + i].tipo = ADICIONAL_INDEPENDIENTE
                 /\ mods[e + i].codigo_partida = c.partidas_nuevas[i].codigo_partida
           /\ \A i \in 1..m :
                 /\ mods[e + n + i].tipo = DEDUCTIVO_VINCULANTE
                 /\ mods[e + n + i].codigo_partida = c.partidas_modificadas[i].codigo_partida

\* C18 witness: a classification with the three kinds, in that order.
C18_Witness ==
    /\ comparacion # <<>>
    /\ Len(comparacion[1].modificaciones_sugeridas) = 3
    /\ comparacion[1].modificaciones_sugeridas[1].tipo = REDUCCION_PRESTACIONES
    /\ comparacion[1].modificaciones_sugeridas[2].tipo = ADICIONAL_INDEPENDIENTE
    /\ comparacion[1].modificaciones_sugeridas[3].tipo = DEDUCTIVO_VINCULANTE

-----------------------------------------------------------------------------
(* Properties of the validator (SpecValidar) *)

\* The sum of a function of positions over a set of positions.
RECURSIVE SumaSobre(_, _)
SumaSobre(f, posiciones) ==
    IF posiciones = {} THEN 0
    ELSE LET i == CHOOSE i \in posiciones : TRUE
         IN f[i] + SumaSobre(f, posiciones \ {i})

\* The impact of each modification of the validated list.
ImpactosValidados ==
    [i \in 1..Len(lista_validada) |-> calcular_impacto_presupuestal(lista_validada[i])]

\* The sum of |impact| over the impacts < 0 and the sum of the impacts >= 0.
SumaReducciones ==
    SumaSobre([i \in 1..Len(lista_validada) |-> -ImpactosValidados[i]],
              {i \in 1..Len(lista_validada) : ImpactosValidados[i] < 0})

SumaAdicionales ==
    SumaSobre(ImpactosValidados, {i \in 1..Len(lista_validada) : ImpactosValidados[i] >= 0})

\* C19: for any list, the empty one included, the validator returns
\* total_reducciones = the sum of |impact| over the impacts < 0,
\* total_adicionales = the sum of the impacts >= 0, balance = total_adicionales -
\* total_reducciones, and esta_equilibrado exactly when |balance| < 0.01; the
\* empty list gives balance 0 and is balanced.  The three amounts are returned
\* as the floats of these Decimal values.
C19_TotalesDelValidador ==
    resultado_validacion # <<>> =>
        /\ resultado_validacion[1].total_reducciones = Float(SumaReducciones)
        /\ resultado_validacion[1].total_adicionales = Float(SumaAdicionales)
        /\ resultado_validacion[1].balance = Float(SumaAdicionales - SumaReducciones)
        /\ resultado_validacion[1].esta_equilibrado <=>
              (-2 < SumaAdicionales - SumaReducciones /\ SumaAdicionales - SumaReducciones < 2)
        /\ lista_validada = <<>> =>
              (resultado_validacion[1].balance = Float(0) /\ resultado_validacion[1].esta_equilibrado)

\* C19 witness: a list with reductions and additions whose balance is half a
\* centimo was validated, and judged balanced.
C19_Witness ==
    /\ resultado_validacion # <<>>
    /\ resultado_validacion[1].total_reducciones = Float(3)
    /\ resultado_validacion[1].total_adicionales = Float(2)
    /\ resultado_validacion[1].balance = Float(-1)
    /\ resultado_validacion[1].esta_equilibrado

\* An alert line that shows an amount shows the balance to the centimo: the
\* centimos shown are within half a centimo of the amount.
MuestraMonto(alerta, texto, monto) ==
    /\ alerta.texto = texto
    /\ Len(alerta.montos) = 1
    /\ Abs(2 * alerta.montos[1] - monto) <= 1

\* C20: the alerts are a function of the balance: above 0.01 the overrun line
\* with the balance, then the advice to increase reductions or decrease
\* additions; below -0.01 the surplus line with |balance|, then the advice that
\* more additions are possible; otherwise the confirmation line alone.
C20_AlertasSegunBalance ==
    resultado_validacion # <<>> =>
        LET balance == DecimalDeFloat(resultado_validacion[1].balance)
            alertas == resultado_validacion[1].alertas
        IN IF balance > 2
           THEN /\ Len(alertas) = 2
                /\ MuestraMonto(alertas[1], "Sobrecosto de S/", balance)
                /\ alertas[2] = Alerta("Necesitas aumentar reducciones o disminuir adicionales", <<>>)
           ELSE IF balance < -2
           THEN /\ Len(alertas) = 2
                /\ MuestraMonto(alertas[1], "Remanente de S/", -balance)
                /\ alertas[2] = Alerta("Puedes agregar mas adicionales o reducir menos partidas", <<>>)
           ELSE alertas = <<Alerta("Balance presupuestal equilibrado", <<>>)>>

\* C20 witness: a list whose balance is exactly 0.01 was validated and got the
\* confirmation line alone.
C20_Witness ==
    /\ resultado_validacion # <<>>
    /\ resultado_validacion[1].balance = Float(2)
    /\ Len(resultado_validacion[1].alertas) = 1

-----------------------------------------------------------------------------
(* Properties of the suggester (SpecValidar) *)

\* The positions of the additions of the list.
Adicionales == {i \in 1..Len(lista_validada) : lista_validada[i].tipo = ADICIONAL_INDEPENDIENTE}

\* The balance of the list: the overrun when it is positive.
BalanceDeLaLista == SumaAdicionales - SumaReducciones

\* The suggestions returned that name items for removal.
SugerenciasConPartidas ==
    SelectSeq(sugerencias_devueltas[1],
              LAMBDA sug : sug.texto = "Considera eliminar estas partidas adicionales")

\* The amounts of the additions at the positions eleccion[1..n].
MontoElegido(eleccion, n) ==
    SumaSobre([i \in 1..Len(eleccion) |-> lista_validada[eleccion[i]].monto_nuevo], 1..n)

\* nombradas are the codes of additions of the list taken in descending order
\* of amount, no addition left out being larger than one taken, up to the first
\* one that brings the accumulated amount to the overrun or to all of them.
PrefijoMasCorto(nombradas, overrun) ==
    \E eleccion \in [1..Len(nombradas) -> Adicionales] :
        /\ \A i, j \in 1..Len(nombradas) : eleccion[i] = eleccion[j] => i = j
        /\ \A i \in 1..Len(nombradas) :
              nombradas[i] = lista_validada[eleccion[i]].codigo_partida
        /\ \A i \in 1..(Len(nombradas) - 1) :
              lista_validada[eleccion[i]].monto_nuevo >= lista_validada[eleccion[i + 1]].monto_nuevo
        /\ \A u \in Adicionales \ {eleccion[i] : i \in 1..Len(nombradas)} :
              \A i \in 1..Len(nombradas) :
                 lista_validada[u].monto_nuevo <= lista_validada[eleccion[i]].monto_nuevo
        /\ \/ MontoElegido(eleccion, Len(nombradas)) >= overrun
           \/ Len(nombradas) = Cardinality(Adicionales)
        /\ Len(nombradas) >= 1
        /\ MontoElegido(eleccion, Len(nombradas) - 1) < overrun

\* C21: for an unbalanced list with an overrun B > 0 that holds additions, the
\* suggester names for removal the additions in descending monto_nuevo order up
\* to the first that brings the accumulated amount to B or above (all of them
\* when their total is below B): the shortest such prefix, and no addition left
\* unnamed is larger than a named one.
C21_SugerenciaVoraz ==
    (/\ sugerencias_devueltas # <<>>
     /\ BalanceDeLaLista >= 2
     /\ Adicionales # {}) =>
        /\ Len(SugerenciasConPartidas) = 1
        /\ PrefijoMasCorto(SugerenciasConPartidas[1].datos, BalanceDeLaLista)

\* C21 witness: with an overrun of 0.015 and additions of S/ 500 and of 0.015,
\* the suggester named the larger one alone.
C21_Witness ==
    /\ sugerencias_devueltas # <<>>
    /\ BalanceDeLaLista = 3
    /\ Cardinality(Adicionales) = 2
    /\ Len(SugerenciasConPartidas) = 1
    /\ SugerenciasConPartidas[1].datos = <<"01.03">>

\* C22: a call of validar_equilibrio_presupuestal or of
\* sugerir_equilibrio_automatico changes no modification of its list (state,
\* amounts, stored impact), no active session and no persisted version, and the
\* validator called again on the unchanged list returns what it returned before.
C22_ValidarSinEfectos ==
    [][/\ lista_validada' = lista_validada
       /\ comparaciones_activas' = comparaciones_activas
       /\ versiones' = versiones
       /\ (resultado_validacion # <<>> /\ resultado_validacion' # <<>>)
             => resultado_validacion' = resultado_validacion
       /\ (sugerencias_devueltas # <<>> /\ sugerencias_devueltas' # <<>>)
             => sugerencias_devueltas' = sugerencias_devueltas]_vars

\* C22 witness: both functions have returned on a list that holds a
\* modification whose stored impact is not the computed one, still in DETECTADA.
C22_Witness ==
    /\ resultado_validacion # <<>>
    /\ sugerencias_devueltas # <<>>
    /\ \E i \in 1..Len(lista_validada) :
          /\ lista_validada[i].estado = DETECTADA
          /\ lista_validada[i].impacto_presupuestal
                # calcular_impacto_presupuestal(lista_validada[i])

\* The sugerencias-equilibrio endpoint changes no session and no version.
SugerenciasSinEfectos ==
    [][respuesta'.op = "get_sugerencias_equilibrio" =>
          /\ comparaciones_activas' = comparaciones_activas
          /\ versiones' = versiones]_vars

\* C28: whenever the validator reports a list as not balanced, the suggester
\* returns at least one suggestion for that list, also when the overrun comes
\* only from DEDUCTIVO_VINCULANTE modifications.
C28_DesequilibrioConSugerencia ==
    (/\ resultado_validacion # <<>>
     /\ sugerencias_devueltas # <<>>
     /\ ~resultado_validacion[1].esta_equilibrado)
        => Len(sugerencias_devueltas[1]) >= 1

\* The last row of a list that carries a code.
UltimaFila(lista, codigo) ==
    lista[CHOOSE i \in 1..Len(lista) :
             /\ lista[i].codigo_partida = codigo
             /\ \A j \in 1..Len(lista) : lista[j].codigo_partida = codigo => j <= i]

\* A list carries some code on two rows that are not the same row.
RepiteCodigo(lista) ==
    \E i, j \in 1..Len(lista) :
        i < j /\ lista[i].codigo_partida = lista[j].codigo_partida /\ lista[i] # lista[j]

\* C24: when a code occurs more than once in an input list, only its last row
\* takes part in the comparison: a removed or added entry is the last row of its
\* code, a changed entry pairs the last rows of both sides, and a code of both
\* sides is changed exactly when those last rows differ; every code appears
\* at most once across removed, added and changed, and in at most one
\* modification.
C24_UltimaFilaGana ==
    comparacion # <<>> =>
        LET c == comparacion[1]
            mods == c.modificaciones_sugeridas
        IN /\ \A i \in 1..Len(c.partidas_eliminadas) :
                 c.partidas_eliminadas[i]
                    = UltimaFila(partidas_originales, c.partidas_eliminadas[i].codigo_partida)
           /\ \A i \in 1..Len(c.partidas_nuevas) :
                 c.partidas_nuevas[i]
                    = UltimaFila(partidas_nuevas, c.partidas_nuevas[i].codigo_partida)
           /\ \A i \in 1..Len(c.partidas_modificadas) :
                 /\ c.partidas_modificadas[i].original
                       = UltimaFila(partidas_originales, c.partidas_modificadas[i].codigo_partida)
                 /\ c.partidas_modificadas[i].nueva
                       = UltimaFila(partidas_nuevas, c.partidas_modificadas[i].codigo_partida)
           /\ \A codigo \in CodigosDe(partidas_originales) \cap CodigosDe(partidas_nuevas) :
                 codigo \in CodigosDe(c.partidas_modificadas)
                    <=> ParCambiado(UltimaFila(partidas_originales, codigo),
                                    UltimaFila(partidas_nuevas, codigo))
           /\ Len(c.partidas_eliminadas) + Len(c.partidas_nuevas) + Len(c.partidas_modificadas)
                 = Cardinality(CodigosDe(c.partidas_eliminadas) \cup CodigosDe(c.partidas_nuevas)
                                  \cup CodigosDe(c.partidas_modificadas))
           /\ SinRepetidos(mods)

\* C24 witness: both lists repeat a code on different rows, and the comparison
\* reported that code as changed from the last rows.
C24_Witness ==
    /\ comparacion # <<>>
    /\ RepiteCodigo(partidas_originales)
    /\ RepiteCodigo(partidas_nuevas)
    /\ Len(comparacion[1].partidas_modificadas) = 1
    /\ Len(comparacion[1].modificaciones_sugeridas) = 1
    /\ partidas_originales[1] = comparacion[1].partidas_modificadas[1].nueva

\* C25: the alerts of the validator agree with the flag returned beside them:
\* the confirmation line is returned exactly when esta_equilibrado is true.
C25_AlertasSegunBandera ==
    resultado_validacion # <<>> =>
        (resultado_validacion[1].alertas = <<Alerta("Balance presupuestal equilibrado", <<>>)>>
            <=> resultado_validacion[1].esta_equilibrado)

-----------------------------------------------------------------------------
(* Properties of the sessions (Spec) *)

\* C26: within one confirmar_version call each suggested modification enters
\* modificaciones_confirmadas at most once, also when the request names the same
\* (codigo_partida, tipo) more than once: the list handed to the validator is
\* never longer than the number of modifications of the session that are
\* JUSTIFICADA after the call.
C26_ConfirmadaUnaVez ==
    (/\ llamada.op = "confirmar_version"
     /\ llamada.viva
     /\ llamada.token \in DOMAIN comparaciones_activas) =>
        llamada.confirmadas
           <= Cardinality({i \in 1..Len(comparaciones_activas[llamada.token].modificaciones_sugeridas) :
                 comparaciones_activas[llamada.token].modificaciones_sugeridas[i].estado = JUSTIFICADA})

\* C27: a detectar_cambios call that registers a comparison does so under a token
\* that no live session uses: it never replaces a session not yet confirmed.
C27_TokenSinUso ==
    [][(respuesta'.op = "detectar_cambios" /\ respuesta'.status = 200) =>
          /\ respuesta'.detalle.comparacion_id \notin DOMAIN comparaciones_activas
          /\ \A t \in DOMAIN comparaciones_activas :
                /\ t \in DOMAIN comparaciones_activas'
                /\ comparaciones_activas'[t] = comparaciones_activas[t]]_vars

-----------------------------------------------------------------------------
(* The risk score as a function of a station's statistics (SpecRiesgo) *)

\* The largest total_partidas of a statistics record.
MaxTotalPartidas == 4

\* The last-report dates: none, unparseable, with a zone, and naive dates
\* today, in the past and in the future.
Reportes ==
    {SinReporte, ReporteInvalido, ReporteConZona}
    \cup {ReporteHace(dias) : dias \in {-30, -1, 0, 1, 10, 30}}

\* The records of get_resumen_por_comisaria: 0 <= critical <= total, the
\* total 0 included; the counts whose percentage is a whole number of hundredths.
DatosComisaria ==
    {d \in [diferencia_promedio : {-20, 0, 5, 13},
            total_partidas : 0..MaxTotalPartidas,
            partidas_criticas : 0..MaxTotalPartidas,
            ultimo_reporte : Reportes] :
        /\ d.partidas_criticas <= d.total_partidas
        /\ d.total_partidas = 0 \/ (500 * d.partidas_criticas) % d.total_partidas = 0}

InitRiesgo ==
    /\ InitApi /\ SinComparar /\ SinVersion /\ SinModificacion /\ SinValidar
    /\ SinContrato /\ SinComisaria
    /\ datos_comisaria \in DatosComisaria
    /\ score_riesgo = <<>>

CalcularScoreRiesgo ==
    /\ score_riesgo = <<>>
    /\ score_riesgo' = <<_calcular_score_riesgo(datos_comisaria)>>
    /\ UNCHANGED <<datos_comisaria, varsContrato, varsComisaria>>
    /\ UNCHANGED <<varsApi, varsComparar, varsVersion, varsModificacion, varsValidar>>

NextRiesgo == CalcularScoreRiesgo

SpecRiesgo == InitRiesgo /\ [][NextRiesgo]_vars

\* C23: for every statistics record the call returns a score between 0 and 10
\* inclusive.
C23_ScoreEntreCeroYDiez ==
    score_riesgo # <<>> =>
        /\ score_riesgo[1].excepcion = "ninguna"
        /\ score_riesgo[1].score >= 0
        /\ score_riesgo[1].score <= Centesimas(10)

-----------------------------------------------------------------------------
(* The personnel of one contract (SpecContrato) *)

\* The longest personnel list.
MaxPersonal == 3

\* datetime.now() as agregar_personal reads it.
InstantesContrato == {1, 2}

InitContrato ==
    /\ InitApi /\ SinComparar /\ SinVersion /\ SinModificacion /\ SinValidar
    /\ SinRiesgo /\ SinComisaria
    /\ objetos = <<>>
    /\ personal = <<>>

\* agregar_personal with a PersonalContrato just created.
AgregarPersonalNuevo ==
    /\ Len(personal) < MaxPersonal
    /\ \E tipo \in TipoPersonal, activo \in BOOLEAN, ahora \in InstantesContrato :
          agregar_personal(Append(objetos, PersonalContrato(tipo, activo)),
                           Len(objetos) + 1, ahora)
    /\ UNCHANGED <<varsRiesgo, varsComisaria>>
    /\ UNCHANGED <<varsApi, varsComparar, varsVersion, varsModificacion, varsValidar>>

\* agregar_personal with an object the caller already holds: one of the list.
AgregarPersonalExistente ==
    /\ Len(personal) < MaxPersonal
    /\ \E nuevo \in 1..Len(objetos), ahora \in InstantesContrato :
          agregar_personal(objetos, nuevo, ahora)
    /\ UNCHANGED <<varsRiesgo, varsComisaria>>
    /\ UNCHANGED <<varsApi, varsComparar, varsVersion, varsModificacion, varsValidar>>

NextContrato == AgregarPersonalNuevo \/ AgregarPersonalExistente

SpecContrato == InitContrato /\ [][NextContrato]_vars

\* The listed people of a type whose activo is true.
ActivosDeTipo(objs, lista, tipo) ==
    {id \in 1..Len(objs) : EnLista(lista, id) /\ objs[id].tipo = tipo /\ objs[id].activo}

\* C29: after every agregar_personal on a contract that started without
\* personnel, at most one MONITOR_NEMAEC and at most one REPRESENTANTE_LEGAL of
\* the list has activo = true (and get_personal_por_tipo returns at most one of
\* them at any instant); adding a person of one of these types leaves every
\* person listed before of that type inactive; and no person of another type
\* is changed by an addition.
C29_UnSoloActivo ==
    [][/\ \A tipo \in tipos_unicos :
             /\ Cardinality(ActivosDeTipo(objetos', personal', tipo)) <= 1
             /\ \A ahora \in InstantesContrato :
                   Len(get_personal_por_tipo(objetos', personal', tipo, ahora)) <= 1
       /\ objetos'[personal'[Len(personal')]].tipo \in tipos_unicos =>
             \A k \in 1..Len(personal) :
                 objetos'[personal[k]].tipo = objetos'[personal'[Len(personal')]].tipo
                    => ~objetos'[personal[k]].activo
       /\ \A id \in 1..Len(objetos) :
             objetos[id].tipo \notin tipos_unicos => objetos'[id] = objetos[id]]_vars

\* C29 witness: an active engineer, then two monitors: the first one
\* deactivated with its end date set, the second one the active monitor.
C29_Witness ==
    /\ Len(personal) = 3
    /\ objetos[personal[1]].tipo = INGENIERO_RESIDENTE /\ objetos[personal[1]].activo
    /\ objetos[personal[2]].tipo = MONITOR_NEMAEC
    /\ ~objetos[personal[2]].activo /\ objetos[personal[2]].fecha_fin # <<>>
    /\ personal[3] # personal[2]
    /\ get_monitor_activo(objetos, personal, 2) = <<personal[3]>>

-----------------------------------------------------------------------------
(* The states of one station (SpecComisaria) *)

\* datetime.now() as the three methods read it.
InstantesComisaria == {1, 2}

\* The dates a caller passes: None or a date.
FechasDadas == {<<>>, <<0>>}

\* A station as created: PENDIENTE, with or without a scheduled start, and a
\* budget whose total is negative, zero or positive.
InitComisaria ==
    /\ InitApi /\ SinComparar /\ SinVersion /\ SinModificacion /\ SinValidar
    /\ SinRiesgo /\ SinContrato
    /\ \E fecha_inicio_programada \in {<<>>, <<1>>},
          presupuesto_equipamiento \in {0, 1}, presupuesto_mantenimiento \in {-1, 0, 1} :
          comisaria = Comisaria(fecha_inicio_programada, presupuesto_equipamiento,
                                presupuesto_mantenimiento)
    /\ excepcion = "sin_llamada"

IniciarObra ==
    /\ \E fecha_inicio \in FechasDadas, ahora \in InstantesComisaria :
          iniciar_obra(fecha_inicio, ahora)
    /\ UNCHANGED <<varsRiesgo, varsContrato>>
    /\ UNCHANGED <<varsApi, varsComparar, varsVersion, varsModificacion, varsValidar>>

CompletarObra ==
    /\ \E fecha_fin \in FechasDadas, ahora \in InstantesComisaria :
          completar_obra(fecha_fin, ahora)
    /\ UNCHANGED <<varsRiesgo, varsContrato>>
    /\ UNCHANGED <<varsApi, varsComparar, varsVersion, varsModificacion, varsValidar>>

SuspenderObra ==
    /\ \E ahora \in InstantesComisaria : suspender_obra(ahora)
    /\ UNCHANGED <<varsRiesgo, varsContrato>>
    /\ UNCHANGED <<varsApi, varsComparar, varsVersion, varsModificacion, varsValidar>>

NextComisaria == IniciarObra \/ CompletarObra \/ SuspenderObra

SpecComisaria == InitComisaria /\ [][NextComisaria]_vars

\* C30: under any sequence of iniciar_obra, completar_obra and suspender_obra,
\* EN_PROCESO is entered only from PENDIENTE with a total budget above 0 and a
\* scheduled start date, COMPLETADA only from EN_PROCESO, SUSPENDIDA only from
\* PENDIENTE or EN_PROCESO; COMPLETADA and SUSPENDIDA are never left; and a
\* call that raises leaves the state and the real start and end dates as
\* they were.
C30_TransicionesDeEstado ==
    [][/\ (comisaria'.estado = EN_PROCESO /\ comisaria.estado # EN_PROCESO) =>
             /\ comisaria.estado = PENDIENTE
             /\ comisaria.presupuesto_equipamiento + comisaria.presupuesto_mantenimiento > 0
             /\ comisaria.fecha_inicio_programada # <<>>
       /\ (comisaria'.estado = COMPLETADA /\ comisaria.estado # COMPLETADA) =>
             comisaria.estado = EN_PROCESO
       /\ (comisaria'.estado = SUSPENDIDA /\ comisaria.estado # SUSPENDIDA) =>
             comisaria.estado \in {PENDIENTE, EN_PROCESO}
       /\ comisaria.estado \in {COMPLETADA, SUSPENDIDA} =>
             comisaria'.estado = comisaria.estado
       /\ excepcion' = "ValueError" =>
             /\ comisaria'.estado = comisaria.estado
             /\ comisaria'.fecha_inicio_real = comisaria.fecha_inicio_real
             /\ comisaria'.fecha_fin_real = comisaria.fecha_fin_real]_vars

\* C30 witness: a station that was started and completed, on which a further
\* call has just raised.
C30_Witness ==
    /\ comisaria.estado = COMPLETADA
    /\ comisaria.fecha_inicio_real # <<>>
    /\ comisaria.fecha_fin_real # <<>>
    /\ excepcion = "ValueError"

====
